---- MODULE Spec2Model ----
(***************************************************************************)
(* Wallet dashboard: the Dashboard page (wallet session), the wallet       *)
(* event listeners and the SendTransaction component (transfer), as state  *)
(* machines over the asynchronous requests they issue to the injected      *)
(* wallet provider.                                                        *)
(*                                                                         *)
(* Every await of the source is a point where the handler is suspended:    *)
(* the code between two awaits is one action.  A React state update and    *)
(* the re-render and effects it causes are part of the action that makes   *)
(* the update.  The wallet provider is an opaque environment: each request *)
(* resolves with a value of a small domain or rejects with an error value. *)
(*                                                                         *)
(* JavaScript strings are TLA+ strings; null is the string NULL.  Numeric  *)
(* error codes are written as their decimal digits ("4001").               *)
(***************************************************************************)
EXTENDS Integers, Sequences, FiniteSets, Bags, TLC

VARIABLES
    ethereum,             \* window.ethereum: "none" or "metamask"
    walletState,          \* Dashboard: useState<WalletState>
    isMetaMaskAvailable,  \* Dashboard: useState<boolean | null>, "null" | "true" | "false"
    checkConn,            \* the mount effect's checkExistingConnection call
    connects,             \* bag of the handleConnect calls suspended at an await
    fetches,              \* bag of the refreshBalance calls suspended at getBalance
    listeners,            \* handlers registered at the provider, per event
    effectCleanup,        \* cleanup returned by the listener effect's last run
    formData,             \* SendTransaction: useState<TransactionFormData>
    formErrors,           \* SendTransaction: form validation errors
    txState,              \* SendTransaction: useState<TransactionState>
    submits,              \* bag of the handleSubmit calls suspended at an await
    isSwitching,          \* NetworkStatus: useState(false)
    switches,             \* bag of the handleSwitch calls suspended at an await
    last                  \* the handler that ran last and what it emitted

vars == <<ethereum, walletState, isMetaMaskAvailable, checkConn, connects, fetches,
          listeners, effectCleanup, formData, formErrors, txState, submits,
          isSwitching, switches, last>>

NULL == "null"

(***************************************************************************)
(* Bounds of the model.                                                    *)
(***************************************************************************)
MaxPending == 2     \* handler calls suspended at an await at once
MaxCleanups == 3    \* calls of one cleanup function of setupWalletListeners

(***************************************************************************)
(* String helpers (String.prototype.includes, substring).                  *)
(***************************************************************************)
\* s.slice(a - 1, b): the characters at positions a..b (1-based), clamped to s.
Slice(s, a, b) ==
    LET lo == IF a < 1 THEN 1 ELSE a
        hi == IF b > Len(s) THEN Len(s) ELSE b
    IN  IF lo > hi THEN "" ELSE SubSeq(s, lo, hi)

Includes(s, p) ==
    \E i \in 1..(Len(s) - Len(p) + 1) : Slice(s, i, i + Len(p) - 1) = p

Substring(s, from, to) == Slice(s, from + 1, to)

Truthy(s) == s # NULL /\ s # ""

(***************************************************************************)
(* types/web3: MetaMaskErrorCode, INITIAL_WALLET_STATE,                    *)
(* INITIAL_TRANSACTION_STATE.                                              *)
(***************************************************************************)
USER_REJECTED == "4001"
UNAUTHORIZED == "4100"
UNSUPPORTED_METHOD == "4200"
DISCONNECTED == "4900"
CHAIN_DISCONNECTED == "4901"
UNRECOGNIZED_CHAIN == "4902"

INITIAL_WALLET_STATE ==
    [isConnected |-> FALSE, address |-> NULL, chainId |-> NULL,
     balance |-> NULL, isLoading |-> FALSE, error |-> NULL]

INITIAL_TRANSACTION_STATE == [status |-> "idle", hash |-> NULL, error |-> NULL]

(***************************************************************************)
(* Error values a rejected request can carry.  kind "object" has optional  *)
(* code, message and reason fields; kind "string" is a thrown string;      *)
(* kind "null" is a rejection with null.                                   *)
(***************************************************************************)
ErrObj(code, message, reason) ==
    [kind |-> "object", code |-> code, message |-> message, reason |-> reason, text |-> NULL]

ErrString(text) ==
    [kind |-> "string", code |-> NULL, message |-> NULL, reason |-> NULL, text |-> text]

ErrNull == [kind |-> "null", code |-> NULL, message |-> NULL, reason |-> NULL, text |-> NULL]

NewError(message) == ErrObj(NULL, message, NULL)

\* The result of a classifier call that itself throws (property access on null).
THROWS == "<TypeError>"

MsgIncludes(e, phrase) == e.message # NULL /\ Includes(e.message, phrase)

parseWeb3Error(error) ==
    IF error.kind = "string" THEN error.text
    ELSE IF error.kind = "null" THEN THROWS
    ELSE CASE error.code = USER_REJECTED ->
                "Connection rejected. Please approve the connection in MetaMask."
           [] error.code = UNAUTHORIZED ->
                "Unauthorized. Please connect your wallet first."
           [] error.code = UNSUPPORTED_METHOD ->
                "This action is not supported by your wallet."
           [] error.code = DISCONNECTED ->
                "Wallet is disconnected. Please reconnect."
           [] error.code = CHAIN_DISCONNECTED ->
                "Disconnected from the chain. Please check your network."
           [] error.code = UNRECOGNIZED_CHAIN ->
                "Network not recognized. Please add it to your wallet."
           [] OTHER ->
                IF Truthy(error.message)
                THEN IF Includes(error.message, "user rejected")
                     THEN "Request cancelled by user."
                     ELSE error.message
                ELSE "An unexpected error occurred. Please try again."

\* parseTransactionError with the nonce test ahead of the gas test.
parseTransactionError_nonceFirst(error) ==
    IF error.kind = "null" THEN THROWS
    ELSE IF \/ error.code = USER_REJECTED
            \/ error.code = "ACTION_REJECTED"
            \/ MsgIncludes(error, "user rejected")
            \/ MsgIncludes(error, "User denied")
    THEN "Transaction cancelled by user."
    ELSE IF \/ error.code = "INSUFFICIENT_FUNDS"
            \/ MsgIncludes(error, "insufficient funds")
            \/ MsgIncludes(error, "Insufficient funds")
    THEN "Insufficient ETH balance to complete this transaction."
    ELSE IF MsgIncludes(error, "nonce")
    THEN "Transaction nonce error. Please try again."
    ELSE IF MsgIncludes(error, "gas")
    THEN "Failed to estimate gas. The transaction may fail."
    ELSE IF MsgIncludes(error, "network") \/ error.code = "NETWORK_ERROR"
    THEN "Network error. Please check your connection."
    ELSE IF Truthy(error.reason)
    THEN error.reason
    ELSE IF Truthy(error.message)
    THEN IF Len(error.message) > 100
         THEN Substring(error.message, 0, 100) \o "..."
         ELSE error.message
    ELSE "Transaction failed. Please try again."


parseTransactionError(error) ==
    IF error.kind = "null" THEN THROWS
    ELSE IF \/ error.code = USER_REJECTED
            \/ error.code = "ACTION_REJECTED"
            \/ MsgIncludes(error, "user rejected")
            \/ MsgIncludes(error, "User denied")
    THEN "Transaction cancelled by user."
    ELSE IF \/ error.code = "INSUFFICIENT_FUNDS"
            \/ MsgIncludes(error, "insufficient funds")
            \/ MsgIncludes(error, "Insufficient funds")
    THEN "Insufficient ETH balance to complete this transaction."
    ELSE IF MsgIncludes(error, "gas")
    THEN "Failed to estimate gas. The transaction may fail."
    ELSE IF MsgIncludes(error, "nonce")
    THEN "Transaction nonce error. Please try again."
    ELSE IF MsgIncludes(error, "network") \/ error.code = "NETWORK_ERROR"
    THEN "Network error. Please check your connection."
    ELSE IF Truthy(error.reason)
    THEN error.reason
    ELSE IF Truthy(error.message)
    THEN IF Len(error.message) > 100
         THEN Substring(error.message, 0, 100) \o "..."
         ELSE error.message
    ELSE "Transaction failed. Please try again."

(***************************************************************************)
(* lib/ethereum: input validation.  parseFloat reads the longest numeric   *)
(* prefix after leading white space; of its value validateAmount uses only *)
(* whether it is NaN and whether it is <= 0 (exponent underflow to 0 is    *)
(* not modelled).                                                          *)
(***************************************************************************)
Digits == {"0", "1", "2", "3", "4", "5", "6", "7", "8", "9"}
HexDigits == Digits \cup {"a", "b", "c", "d", "e", "f", "A", "B", "C", "D", "E", "F"}
WhiteSpace == {" ", "\t", "\n"}

CharAt(s, i) == IF i >= 1 /\ i <= Len(s) THEN Slice(s, i, i) ELSE ""

RECURSIVE SkipWhile(_, _, _)
\* The first position >= i of s whose character is not in set (Len(s)+1 if none).
SkipWhile(s, i, set) ==
    IF i <= Len(s) /\ CharAt(s, i) \in set THEN SkipWhile(s, i + 1, set) ELSE i

RECURSIVE SkipBack(_, _, _)
\* The last position <= i of s whose character is not in set (0 if none).
SkipBack(s, i, set) ==
    IF i >= 1 /\ CharAt(s, i) \in set THEN SkipBack(s, i - 1, set) ELSE i

Trim(s) == Slice(s, SkipWhile(s, 1, WhiteSpace), SkipBack(s, Len(s), WhiteSpace))

AllIn(s, set) == \A i \in 1..Len(s) : CharAt(s, i) \in set

\* Position of the first occurrence of p in s at or after from, 0 if none.
IndexOf(s, p, from) ==
    LET hits == {i \in from..(Len(s) - Len(p) + 1) : Slice(s, i, i + Len(p) - 1) = p}
    IN  IF hits = {} THEN 0 ELSE CHOOSE i \in hits : \A j \in hits : i <= j

\* s.split(".")[1]: the text between the first and the second dot; NULL
\* (undefined) when s has no dot.
SplitDot1(s) ==
    LET d1 == IndexOf(s, ".", 1)
        d2 == IF d1 = 0 THEN 0 ELSE IndexOf(s, ".", d1 + 1)
    IN  IF d1 = 0 THEN NULL
        ELSE Slice(s, d1 + 1, IF d2 = 0 THEN Len(s) ELSE d2 - 1)

\* parseFloat(s) as [nan, neg, zero].
parseFloat(s) ==
    LET b == SkipWhile(s, 1, WhiteSpace)
        signed == CharAt(s, b) \in {"+", "-"}
        neg == CharAt(s, b) = "-"
        m == IF signed THEN b + 1 ELSE b
        i1 == SkipWhile(s, m, Digits)                     \* after the integer digits
        hasDot == CharAt(s, i1) = "."
        f1 == IF hasDot THEN SkipWhile(s, i1 + 1, Digits) ELSE i1
        intDigits == Slice(s, m, i1 - 1)
        fracDigits == IF hasDot THEN Slice(s, i1 + 1, f1 - 1) ELSE ""
        isInf == Slice(s, m, m + 7) = "Infinity"
    IN  IF isInf THEN [nan |-> FALSE, neg |-> neg, zero |-> FALSE]
        ELSE IF intDigits = "" /\ fracDigits = "" THEN [nan |-> TRUE, neg |-> FALSE, zero |-> FALSE]
        ELSE [nan |-> FALSE, neg |-> neg, zero |-> AllIn(intDigits \o fracDigits, {"0"})]

validateAmount(amount) ==
    LET numAmount == parseFloat(amount)
        decimal == SplitDot1(amount)
    IN  IF amount = "" \/ Trim(amount) = ""
        THEN [isValid |-> FALSE, error |-> "Amount is required"]
        ELSE IF numAmount.nan
        THEN [isValid |-> FALSE, error |-> "Invalid amount format"]
        ELSE IF numAmount.neg \/ numAmount.zero
        THEN [isValid |-> FALSE, error |-> "Amount must be greater than 0"]
        ELSE IF Truthy(decimal) /\ Len(decimal) > 18
        THEN [isValid |-> FALSE, error |-> "Too many decimal places (max 18)"]
        ELSE [isValid |-> TRUE, error |-> NULL]

\* ethers isAddress: "0x" and 40 hex digits (the checksum of a mixed-case
\* address is not modelled).
isAddress(address) ==
    /\ Len(address) = 42
    /\ Slice(address, 1, 2) = "0x"
    /\ AllIn(Slice(address, 3, 42), HexDigits)

isValidAddress(address) == IF address = "" THEN FALSE ELSE isAddress(address)

\* ethers parseEther accepts -?digits[.digits] with at most 18 decimals and
\* throws on anything else.
parseEtherOk(s) ==
    LET m == IF CharAt(s, 1) = "-" THEN 2 ELSE 1
        i1 == SkipWhile(s, m, Digits)
        hasDot == CharAt(s, i1) = "."
        f1 == IF hasDot THEN SkipWhile(s, i1 + 1, Digits) ELSE i1
        nDigits == (i1 - m) + (IF hasDot THEN f1 - i1 - 1 ELSE 0)
    IN  /\ f1 = Len(s) + 1
        /\ nDigits > 0
        /\ (hasDot => f1 - i1 - 1 <= 18)

(***************************************************************************)
(* The wallet provider's answers.                                          *)
(***************************************************************************)
\* signer.getAddress() answers in checksum case, eth_accounts and the
\* accountsChanged event in lower case.
SignerAddresses == {"0xAb"}
EventAddresses == {"0xab", "0xcd"}
ChainIds == {"0x1", "0xaa36a7"}

\* The formatted balance the chain holds for an account.
BalanceOf(address) == IF address \in {"0xAb", "0xab"} THEN "1.2345" ELSE "0.5"

\* Errors a request of the connect path is rejected with.
ConnectErrors == {ErrObj(USER_REJECTED, "User rejected the request.", NULL),
                  NewError("Internal JSON-RPC error.")}

\* Errors the eth_chainId request of getChainId is rejected with: the value
\* the wallet rejects with reaches the caller as it is, null included (the
\* requests made through ethers are rejected with Error objects).
ChainIdErrors == ConnectErrors \cup {ErrNull}

(***************************************************************************)
(* Handler calls suspended at an await are kept in bags, one per handler.  *)
(***************************************************************************)
AddTo(bag, call) == bag (+) SetToBag({call})
RemoveFrom(bag, call) == bag (-) SetToBag({call})

CheckPending == checkConn.pc \in {"accounts", "chainId", "balance"}

Pending ==
    BagCardinality(connects) + BagCardinality(fetches) + BagCardinality(submits)
        + BagCardinality(switches) + (IF CheckPending THEN 1 ELSE 0)

(***************************************************************************)
(* Dashboard (app/page.tsx).  A handler is a function of the machine       *)
(* M = [ws, fetches, emitted, room, ok]: the wallet state, the balance     *)
(* fetches in flight, what the handler emitted (requests, toasts), the     *)
(* number of calls that may still suspend, and ok = FALSE when the handler *)
(* needs more than that.                                                   *)
(***************************************************************************)
MachineWith(room) ==
    [ws |-> walletState, fetches |-> fetches, emitted |-> <<>>, room |-> room, ok |-> TRUE]

Machine == MachineWith(MaxPending - Pending)

isMetaMaskInstalled == ethereum = "metamask"

\* The record of the step just taken: op is what happened (a call of a
\* handler, or the answer of the provider that resumed one), emitted what
\* the code did in response (requests issued, toasts, callbacks), stale
\* whether the resumed call belongs to an unmounted component, arg the
\* value the provider passed (an event's argument, a rejection's error).
DidWith(op, arg, emitted) ==
    [op |-> op, arg |-> arg, emitted |-> emitted, stale |-> FALSE]

Did(op, emitted) == DidWith(op, NULL, emitted)

\* updateWalletState: setWalletState(prev => ({...prev, ...update}))
updateWalletState(ws, update) ==
    [k \in DOMAIN ws |-> IF k \in DOMAIN update THEN update[k] ELSE ws[k]]

Emit(M, what) == [M EXCEPT !.emitted = Append(@, what)]

\* refreshBalance up to its await: getBalance throws at once without a
\* provider (caught and logged), else issues the balance request.  origin is
\* the handler that awaits the call.
refreshBalance(M, address, origin) ==
    IF ethereum = "none" THEN Emit(M, "console.error")
    ELSE IF M.room = 0 THEN [M EXCEPT !.ok = FALSE]
    ELSE [Emit(M, "eth_getBalance") EXCEPT
            !.fetches = AddTo(@, [address |-> address, origin |-> origin]),
            !.room = @ - 1]

handleDisconnect(M) ==
    Emit([M EXCEPT !.ws = INITIAL_WALLET_STATE], "toast:Wallet disconnected")

\* handleAccountsChanged that, on an empty list, clears the connection but
\* keeps the error.
handleAccountsChanged_keepsError(address, accounts, M) ==
    IF Len(accounts) = 0
    THEN Emit([M EXCEPT !.ws = [INITIAL_WALLET_STATE EXCEPT !.error = M.ws.error]],
              "toast:Wallet disconnected")
    ELSE IF accounts[1] # address
    THEN refreshBalance([M EXCEPT !.ws = updateWalletState(@, [address |-> accounts[1]])],
                        accounts[1], "handleAccountsChanged")
    ELSE M


\* handleAccountsChanged without the comparison with the current address.
handleAccountsChanged_always(address, accounts, M) ==
    IF Len(accounts) = 0
    THEN Emit([M EXCEPT !.ws = INITIAL_WALLET_STATE], "toast:Wallet disconnected")
    ELSE refreshBalance([M EXCEPT !.ws = updateWalletState(@, [address |-> accounts[1]])],
                        accounts[1], "handleAccountsChanged")


\* handleAccountsChanged up to its await; address is walletState.address as
\* captured by the callback.
handleAccountsChanged(address, accounts, M) ==
    IF Len(accounts) = 0
    THEN Emit([M EXCEPT !.ws = INITIAL_WALLET_STATE], "toast:Wallet disconnected")
    ELSE IF accounts[1] # address
    THEN refreshBalance([M EXCEPT !.ws = updateWalletState(@, [address |-> accounts[1]])],
                        accounts[1], "handleAccountsChanged")
    ELSE M

\* handleChainChanged that does not refresh the balance.
handleChainChanged_noRefresh(address, chainId, M) ==
    Emit([M EXCEPT !.ws = updateWalletState(@, [chainId |-> chainId])],
         "toast:Network changed")


\* handleChainChanged up to its await.
handleChainChanged(address, chainId, M) ==
    LET M1 == [M EXCEPT !.ws = updateWalletState(@, [chainId |-> chainId])]
    IN  IF Truthy(address)
        THEN refreshBalance(M1, address, "handleChainChanged")
        ELSE Emit(M1, "toast:Network changed")

\* onTransactionComplete as passed to SendTransaction; address as captured.
onTransactionComplete(address, M) ==
    IF Truthy(address)
    THEN refreshBalance(Emit(M, "onTransactionComplete"), address, "onTransactionComplete")
    ELSE Emit(M, "onTransactionComplete")

(***************************************************************************)
(* lib/ethereum setupWalletListeners and the effect of app/page.tsx that   *)
(* calls it.  A registered handler is identified by the address its        *)
(* callbacks captured.                                                     *)
(***************************************************************************)
NoListeners == [accountsChanged |-> <<>>, chainChanged |-> <<>>, disconnect |-> <<>>]
NoCleanup == [active |-> FALSE, address |-> NULL]
EventNames == {"accountsChanged", "chainChanged", "disconnect"}

RECURSIVE RemoveFirst(_, _)
\* removeListener: removes one registration of the handler, if there is one.
RemoveFirst(seq, h) ==
    IF seq = <<>> THEN <<>>
    ELSE IF Head(seq) = h THEN Tail(seq)
    ELSE <<Head(seq)>> \o RemoveFirst(Tail(seq), h)

\* ethereum.on for the three events.
setupWalletListeners(L, h) ==
    IF ethereum = "none" THEN L
    ELSE [e \in EventNames |-> Append(L[e], h)]

\* A cleanup function that removes nothing.
cleanupWalletListeners_none(L, h) == L


\* A cleanup function that removes every handler of the three events.
cleanupWalletListeners_all(L, h) == NoListeners

\* The cleanup function setupWalletListeners returned.
cleanupWalletListeners(L, h) ==
    IF ethereum = "none" THEN L
    ELSE [e \in EventNames |-> RemoveFirst(L[e], h)]

\* The effect's dependencies: handleAccountsChanged and handleChainChanged
\* are new callbacks exactly when walletState.address changed.
EffectDeps(ws, avail) == <<avail, ws.isConnected, ws.address>>

\* The listeners after the re-render from (walletState, isMetaMaskAvailable)
\* to (ws2, avail2): when a dependency changed, the previous cleanup runs and
\* the effect runs again.
ListenerEffect(ws2, avail2) ==
    LET rerun == EffectDeps(ws2, avail2) # EffectDeps(walletState, isMetaMaskAvailable)
        cleaned == IF rerun /\ effectCleanup.active
                   THEN cleanupWalletListeners(listeners, effectCleanup.address)
                   ELSE listeners
        setup == avail2 = "true" /\ ws2.isConnected
    IN  IF ~rerun THEN [listeners |-> listeners, cleanup |-> effectCleanup]
        ELSE IF setup
        THEN [listeners |-> setupWalletListeners(cleaned, ws2.address),
              cleanup |-> [active |-> TRUE, address |-> ws2.address]]
        ELSE [listeners |-> cleaned, cleanup |-> NoCleanup]

(***************************************************************************)
(* SendTransaction is rendered while walletState.isConnected: when that    *)
(* turns false the component unmounts, its state is dropped, and the       *)
(* handleSubmit calls still in flight belong to no mounted component.      *)
(***************************************************************************)
INITIAL_FORM_DATA == [recipient |-> "", amount |-> ""]
INITIAL_FORM_ERRORS == [recipient |-> NULL, amount |-> NULL]

RECURSIVE Unmounted(_)
Unmounted(subs) ==
    IF subs = EmptyBag THEN EmptyBag
    ELSE LET call == CHOOSE c \in BagToSet(subs) : TRUE
         IN  AddTo(Unmounted(RemoveFrom(subs, call)), [call EXCEPT !.stale = TRUE])

\* The re-render after a handler: new Dashboard state, listener effect,
\* SendTransaction state.
Commit(ws2, avail2, form2, errs2, tx2, subs2) ==
    LET eff == ListenerEffect(ws2, avail2)
    IN  /\ walletState' = ws2
        /\ isMetaMaskAvailable' = avail2
        /\ listeners' = eff.listeners
        /\ effectCleanup' = eff.cleanup
        /\ formData' = IF ws2.isConnected THEN form2 ELSE INITIAL_FORM_DATA
        /\ formErrors' = IF ws2.isConnected THEN errs2 ELSE INITIAL_FORM_ERRORS
        /\ txState' = IF ws2.isConnected THEN tx2 ELSE INITIAL_TRANSACTION_STATE
        /\ submits' = IF ws2.isConnected THEN subs2 ELSE Unmounted(subs2)
        /\ isSwitching' = (ws2.isConnected /\ isSwitching)
        /\ switches' = IF ws2.isConnected THEN switches ELSE Unmounted(switches)

\* The re-render after a handler that changed the Dashboard's state only.
CommitWallet(ws2) ==
    Commit(ws2, isMetaMaskAvailable, formData, formErrors, txState, submits)

\* A handler of the Dashboard, called with arg, finished at M.
CommitHandler(M, op, arg) ==
    /\ M.ok
    /\ CommitWallet(M.ws)
    /\ fetches' = M.fetches
    /\ last' = DidWith(op, arg, M.emitted)

CommitDashboard(M, op) == CommitHandler(M, op, NULL)

WalletUnchanged ==
    UNCHANGED <<walletState, isMetaMaskAvailable, listeners, effectCleanup, formData,
                formErrors, txState, submits, isSwitching, switches>>

(***************************************************************************)
(* Actions of the Dashboard.                                               *)
(***************************************************************************)
Mounted == checkConn.pc # "mount"

\* The mount effect: checkExistingConnection up to its first await.
CheckExistingConnection ==
    /\ checkConn.pc = "mount"
    /\ Commit(walletState, IF isMetaMaskInstalled THEN "true" ELSE "false",
              formData, formErrors, txState, submits)
    /\ checkConn' = [checkConn EXCEPT
                        !.pc = IF isMetaMaskInstalled THEN "accounts" ELSE "done"]
    /\ last' = Did("checkExistingConnection",
                   IF isMetaMaskInstalled THEN <<"eth_accounts">> ELSE <<>>)
    /\ UNCHANGED <<ethereum, connects, fetches>>

\* getConnectedAccounts answered: a list of accounts, or nothing (an empty
\* list, or a request error, which getConnectedAccounts turns into one).
CheckAccounts ==
    /\ checkConn.pc = "accounts"
    /\ \E accounts \in {<<>>} \cup {<<a>> : a \in EventAddresses} :
         /\ checkConn' = IF Len(accounts) > 0
                         THEN [checkConn EXCEPT !.pc = "chainId", !.address = accounts[1]]
                         ELSE [checkConn EXCEPT !.pc = "done"]
         /\ last' = Did("check:accounts",
                        IF Len(accounts) > 0 THEN <<"eth_chainId">> ELSE <<>>)
    /\ WalletUnchanged
    /\ UNCHANGED <<ethereum, connects, fetches>>

CheckChainId ==
    /\ checkConn.pc = "chainId"
    /\ \E chainId \in ChainIds :
         checkConn' = [checkConn EXCEPT !.pc = "balance", !.chainId = chainId]
    /\ last' = Did("check:chainId", <<"eth_getBalance">>)
    /\ WalletUnchanged
    /\ UNCHANGED <<ethereum, connects, fetches>>

CheckBalance ==
    /\ checkConn.pc = "balance"
    /\ CommitWallet(updateWalletState(walletState,
                        [isConnected |-> TRUE, address |-> checkConn.address,
                         chainId |-> checkConn.chainId,
                         balance |-> BalanceOf(checkConn.address)]))
    /\ checkConn' = [pc |-> "done", address |-> NULL, chainId |-> NULL]
    /\ last' = Did("check:balance", <<>>)
    /\ UNCHANGED <<ethereum, connects, fetches>>

\* A catch block that also resets the session.
CheckFails_resets ==
    /\ checkConn.pc \in {"chainId", "balance"}
    /\ checkConn' = [pc |-> "done", address |-> NULL, chainId |-> NULL]
    /\ last' = Did("check:rejected", <<"console.error">>)
    /\ CommitWallet(INITIAL_WALLET_STATE)
    /\ UNCHANGED <<ethereum, connects, fetches>>


\* getChainId or getBalance rejected: logged, nothing else.
CheckFails ==
    /\ checkConn.pc \in {"chainId", "balance"}
    /\ checkConn' = [pc |-> "done", address |-> NULL, chainId |-> NULL]
    /\ last' = Did("check:rejected", <<"console.error">>)
    /\ WalletUnchanged
    /\ UNCHANGED <<ethereum, connects, fetches>>

\* handleConnect without its guard.
ConnectInProgress_missing == FALSE


\* The guard of handleConnect against simultaneous connections.
ConnectInProgress == walletState.isLoading

\* handleConnect up to its first await.
HandleConnect ==
    /\ Mounted
    /\ IF ConnectInProgress
       THEN /\ last' = Did("handleConnect", <<>>)
            /\ WalletUnchanged
            /\ UNCHANGED connects
       ELSE LET ws1 == updateWalletState(walletState, [isLoading |-> TRUE, error |-> NULL])
                errorMessage == parseWeb3Error(NewError(
                    "MetaMask is not installed. Please install MetaMask to continue."))
            IN  IF ~isMetaMaskInstalled
                THEN /\ CommitWallet(updateWalletState(ws1, [isLoading |-> FALSE,
                                                             error |-> errorMessage]))
                     /\ last' = Did("handleConnect", <<"toast:" \o errorMessage>>)
                     /\ UNCHANGED connects
                ELSE /\ Pending < MaxPending
                     /\ CommitWallet(ws1)
                     /\ connects' = AddTo(connects,
                                          [pc |-> "requestAccounts", address |-> NULL,
                                           chainId |-> NULL,
                                           wasConnected |-> walletState.isConnected])
                     /\ last' = Did("handleConnect", <<"eth_requestAccounts">>)
    /\ UNCHANGED <<ethereum, checkConn, fetches>>

\* connectWallet resolved with the signer's address.
ConnectAccounts(call) ==
    /\ call.pc = "requestAccounts"
    /\ \E address \in SignerAddresses :
         connects' = AddTo(RemoveFrom(connects, call),
                           [call EXCEPT !.pc = "chainId", !.address = address])
    /\ last' = Did("connect:accounts", <<"eth_chainId">>)
    /\ WalletUnchanged
    /\ UNCHANGED <<ethereum, checkConn, fetches>>

ConnectChainId(call) ==
    /\ call.pc = "chainId"
    /\ \E chainId \in ChainIds :
         connects' = AddTo(RemoveFrom(connects, call),
                           [call EXCEPT !.pc = "balance", !.chainId = chainId])
    /\ last' = Did("connect:chainId", <<"eth_getBalance">>)
    /\ WalletUnchanged
    /\ UNCHANGED <<ethereum, checkConn, fetches>>

\* The success path of handleConnect without isLoading: false.
ConnectBalance_keepsLoading(call) ==
    /\ call.pc = "balance"
    /\ CommitWallet(updateWalletState(walletState,
                        [isConnected |-> TRUE, address |-> call.address,
                         chainId |-> call.chainId,
                         balance |-> BalanceOf(call.address)]))
    /\ connects' = RemoveFrom(connects, call)
    /\ last' = Did("connect:balance", <<"toast:Wallet connected successfully!">>)
    /\ UNCHANGED <<ethereum, checkConn, fetches>>


ConnectBalance(call) ==
    /\ call.pc = "balance"
    /\ CommitWallet(updateWalletState(walletState,
                        [isConnected |-> TRUE, address |-> call.address,
                         chainId |-> call.chainId,
                         balance |-> BalanceOf(call.address),
                         isLoading |-> FALSE]))
    /\ connects' = RemoveFrom(connects, call)
    /\ last' = Did("connect:balance", <<"toast:Wallet connected successfully!">>)
    /\ UNCHANGED <<ethereum, checkConn, fetches>>

\* The request handleConnect awaits rejected: its catch block.
ConnectFails(call) ==
    /\ \E error \in (IF call.pc = "chainId" THEN ChainIdErrors ELSE ConnectErrors) :
         LET errorMessage == parseWeb3Error(error)
         IN  IF errorMessage = THROWS
             THEN \* parseWeb3Error throws in the catch block: the call ends there
                  /\ WalletUnchanged
                  /\ last' = Did("connect:rejected", <<"unhandledrejection">>)
             ELSE /\ CommitWallet(updateWalletState(walletState, [isLoading |-> FALSE,
                                                                  error |-> errorMessage]))
                  /\ last' = Did("connect:rejected", <<"toast:" \o errorMessage>>)
    /\ connects' = RemoveFrom(connects, call)
    /\ UNCHANGED <<ethereum, checkConn, fetches>>

\* handleDisconnect, called by the WalletConnectButton.
HandleDisconnect ==
    /\ Mounted
    /\ CommitDashboard(handleDisconnect(Machine), "handleDisconnect")
    /\ UNCHANGED <<ethereum, checkConn, connects>>

(***************************************************************************)
(* Provider events: the provider calls every handler registered for the    *)
(* event, in registration order.                                           *)
(***************************************************************************)
RECURSIVE Deliver(_, _, _, _)
Deliver(event, handlers, arg, M) ==
    IF handlers = <<>> THEN M
    ELSE LET h == Head(handlers)
             M1 == CASE event = "accountsChanged" -> handleAccountsChanged(h, arg, M)
                     [] event = "chainChanged" -> handleChainChanged(h, arg, M)
                     [] event = "disconnect" -> handleDisconnect(M)
         IN  Deliver(event, Tail(handlers), arg, M1)

AccountsChanged ==
    /\ Mounted
    /\ \E accounts \in {<<>>} \cup {<<a>> : a \in EventAddresses} :
         CommitHandler(Deliver("accountsChanged", listeners.accountsChanged, accounts,
                               Machine),
                       IF accounts = <<>> THEN "accountsChanged:[]" ELSE "accountsChanged",
                       IF accounts = <<>> THEN NULL ELSE accounts[1])
    /\ UNCHANGED <<ethereum, checkConn, connects>>

ChainChanged ==
    /\ Mounted
    /\ \E chainId \in ChainIds :
         CommitHandler(Deliver("chainChanged", listeners.chainChanged, chainId, Machine),
                       "chainChanged", chainId)
    /\ UNCHANGED <<ethereum, checkConn, connects>>

ProviderDisconnect ==
    /\ Mounted
    /\ CommitDashboard(Deliver("disconnect", listeners.disconnect, NULL, Machine),
                       "disconnect")
    /\ UNCHANGED <<ethereum, checkConn, connects>>

(***************************************************************************)
(* refreshBalance after its await, and the rest of the handler that        *)
(* awaited it.                                                             *)
(***************************************************************************)
OriginToast(origin) ==
    CASE origin = "handleAccountsChanged" -> <<"toast:Account changed">>
      [] origin = "handleChainChanged" -> <<"toast:Network changed">>
      [] OTHER -> <<>>

\* A completion that writes the wallet state back from the snapshot its
\* closure captured when the fetch started, instead of merging into prev.
BalanceFetched_snapshot(call) ==
    /\ CommitWallet([walletState EXCEPT !.address = call.address,
                                        !.chainId = NULL,
                                        !.balance = BalanceOf(call.address)])
    /\ fetches' = RemoveFrom(fetches, call)
    /\ last' = Did("balance:resolved", OriginToast(call.origin))
    /\ UNCHANGED <<ethereum, checkConn, connects>>

BalanceFetched(call) ==
    /\ CommitWallet(updateWalletState(walletState, [balance |-> BalanceOf(call.address)]))
    /\ fetches' = RemoveFrom(fetches, call)
    /\ last' = Did("balance:resolved", OriginToast(call.origin))
    /\ UNCHANGED <<ethereum, checkConn, connects>>

\* A catch block that drops the balance it could not refresh.
BalanceFetchFails_clears(call) ==
    /\ fetches' = RemoveFrom(fetches, call)
    /\ last' = Did("balance:rejected", <<"console.error">> \o OriginToast(call.origin))
    /\ CommitWallet(updateWalletState(walletState, [balance |-> NULL]))
    /\ UNCHANGED <<ethereum, checkConn, connects>>


BalanceFetchFails(call) ==
    /\ fetches' = RemoveFrom(fetches, call)
    /\ last' = Did("balance:rejected", <<"console.error">> \o OriginToast(call.origin))
    /\ WalletUnchanged
    /\ UNCHANGED <<ethereum, checkConn, connects>>

(***************************************************************************)
(* SendTransaction (components/SendTransaction.tsx).  The form's inputs    *)
(* and submit button are disabled while isFormDisabled, and the reset      *)
(* buttons are rendered only in the confirmed and failed result panels.    *)
(***************************************************************************)
RecipientInputs == {"", "0x52908400098527886E0F7030069857D2E4169EE7", "0x123"}
AmountInputs == {"", "1.5", "0", "1abc"}
TxHashes == {"0xh1", "0xh2"}

\* What tx.wait() resolves with: a receipt's status, or null.
Receipts == {"1", "0", NULL}

\* Errors getSigner or signer.sendTransaction is rejected with: the user
\* declines in the wallet, or the node refuses the transaction.
SendErrors == {ErrObj("ACTION_REJECTED", "user rejected action", NULL),
               ErrObj("UNKNOWN_ERROR", "intrinsic gas too low", NULL)}

\* The error tx.wait() is rejected with: ethers 6 rejects with CALL_EXCEPTION
\* when the mined transaction's receipt has status 0.
WaitErrors ==
    {ErrObj("CALL_EXCEPTION",
            "transaction execution reverted (action=sendTransaction, receipt={ gasUsed: 21000, status: 0 })",
            NULL)}

isFormDisabled == ~walletState.isConnected \/ txState.status \in {"sending", "pending"}

\* Reset buttons that are rendered in every status of the transfer.
ResetRendered_always == walletState.isConnected

ResetRendered ==
    /\ walletState.isConnected
    /\ Truthy(txState.hash) \/ Truthy(txState.error)
    /\ \/ txState.status = "confirmed" /\ Truthy(txState.hash)
       \/ txState.status = "failed" /\ Truthy(txState.error)

validateRecipient(address) ==
    IF Trim(address) = "" THEN "Recipient address is required"
    ELSE IF ~isValidAddress(address) THEN "Invalid Ethereum address"
    ELSE NULL

\* validateForm that reports the errors but lets the submission through.
validateForm_passes(form) ==
    [errors |-> [recipient |-> validateRecipient(form.recipient),
                 amount |-> validateAmount(form.amount).error],
     isValid |-> TRUE]


\* validateForm: the errors it sets and its result.
validateForm(form) ==
    LET recipientError == validateRecipient(form.recipient)
        amount == validateAmount(form.amount)
    IN  [errors |-> [recipient |-> recipientError, amount |-> amount.error],
         isValid |-> recipientError = NULL /\ amount.isValid]

\* sendTransaction up to its first await: NULL when it got as far as the
\* getSigner request, else the message of the error it throws.
sendTransaction(recipientAddress, amountInEth) ==
    IF ~isValidAddress(recipientAddress) THEN "Invalid recipient address"
    ELSE IF ~validateAmount(amountInEth).isValid THEN validateAmount(amountInEth).error
    ELSE IF ethereum = "none"
    THEN "MetaMask is not installed. Please install MetaMask to continue."
    ELSE NULL

\* A catch block that sets the status and leaves out the message.
SubmitFailed_noError(error) == [status |-> "failed", hash |-> NULL, error |-> NULL]


\* The state the catch block of handleSubmit sets.
SubmitFailed(error) ==
    [status |-> "failed", hash |-> NULL, error |-> parseTransactionError(error)]

\* The test without the receipt's status.
ReceiptOk_anyStatus(receipt) == receipt # NULL


\* receipt && receipt.status === 1
ReceiptOk(receipt) == receipt # NULL /\ receipt = "1"

\* A state update of a handleSubmit call: dropped when the component that
\* made the call has unmounted.
SetBy(call, current, value) == IF call.stale THEN current ELSE value

\* The record of a step that resumed a handleSubmit call.
Resumed(call, op, emitted) ==
    [op |-> op, arg |-> NULL, emitted |-> emitted, stale |-> call.stale]

HandleInputChange ==
    /\ Mounted
    /\ ~isFormDisabled
    /\ \E field \in {"recipient", "amount"} :
         \E value \in (IF field = "recipient" THEN RecipientInputs ELSE AmountInputs) :
            /\ value # formData[field]
            /\ formData' = [formData EXCEPT ![field] = value]
            /\ txState' = IF txState.status \in {"confirmed", "failed"}
                          THEN INITIAL_TRANSACTION_STATE
                          ELSE txState
            /\ formErrors' =
                  [formErrors EXCEPT ![field] =
                      IF value = "" THEN NULL
                      ELSE IF field = "recipient" THEN validateRecipient(value)
                      ELSE validateAmount(value).error]
    /\ last' = Did("handleInputChange", <<>>)
    /\ UNCHANGED <<ethereum, walletState, isMetaMaskAvailable, isSwitching, switches,
                   checkConn, connects,
                   fetches, listeners, effectCleanup, submits>>

\* handleSubmit up to its first await.
HandleSubmit ==
    /\ Mounted
    /\ ~isFormDisabled
    /\ LET form == validateForm(formData)
           thrown == sendTransaction(formData.recipient, formData.amount)
       IN  /\ formErrors' = form.errors
           /\ IF ~form.isValid
              THEN /\ last' = Did("handleSubmit", <<>>)
                   /\ UNCHANGED <<txState, submits>>
              ELSE IF thrown # NULL
              THEN /\ txState' = SubmitFailed(NewError(thrown))
                   /\ last' = Did("handleSubmit",
                                  <<"toast:" \o parseTransactionError(NewError(thrown))>>)
                   /\ UNCHANGED submits
              ELSE /\ Pending < MaxPending
                   /\ txState' = [status |-> "sending", hash |-> NULL, error |-> NULL]
                   /\ submits' = AddTo(submits,
                                       [pc |-> "getSigner", stale |-> FALSE,
                                        amount |-> formData.amount, hash |-> NULL,
                                        cbAddress |-> walletState.address])
                   /\ last' = Did("handleSubmit", <<"eth_accounts">>)
    /\ UNCHANGED <<ethereum, walletState, isMetaMaskAvailable, isSwitching, switches,
                   checkConn, connects,
                   fetches, listeners, effectCleanup, formData>>

\* getSigner resolved: parseEther, then the send request.
SubmitSigner(call) ==
    /\ call.pc = "getSigner"
    /\ IF parseEtherOk(call.amount)
       THEN /\ submits' = AddTo(RemoveFrom(submits, call),
                                [call EXCEPT !.pc = "sendTransaction"])
            /\ last' = Resumed(call, "submit:signer", <<"eth_sendTransaction">>)
            /\ UNCHANGED txState
       ELSE LET thrown == ErrObj("INVALID_ARGUMENT", "invalid FixedNumber string value",
                                 NULL)
            IN  /\ submits' = RemoveFrom(submits, call)
                /\ txState' = SetBy(call, txState, SubmitFailed(thrown))
                /\ last' = Resumed(call, "submit:signer",
                                   <<"toast:" \o parseTransactionError(thrown)>>)
    /\ UNCHANGED <<ethereum, walletState, isMetaMaskAvailable, isSwitching, switches,
                   checkConn, connects,
                   fetches, listeners, effectCleanup, formData, formErrors>>

\* signer.sendTransaction resolved: the transaction is submitted.
SubmitSent(call) ==
    /\ call.pc = "sendTransaction"
    /\ \E hash \in TxHashes :
         /\ submits' = AddTo(RemoveFrom(submits, call),
                             [call EXCEPT !.pc = "wait", !.hash = hash])
         /\ txState' = SetBy(call, txState,
                             [status |-> "pending", hash |-> hash, error |-> NULL])
    /\ last' = Resumed(call, "submit:sent",
                       <<"toast:Transaction submitted! Waiting for confirmation...">>)
    /\ UNCHANGED <<ethereum, walletState, isMetaMaskAvailable, isSwitching, switches,
                   checkConn, connects,
                   fetches, listeners, effectCleanup, formData, formErrors>>

\* tx.wait() resolved.
SubmitReceipt(call) ==
    /\ call.pc = "wait"
    /\ submits' = RemoveFrom(submits, call)
    /\ \E receipt \in Receipts :
         IF ReceiptOk(receipt)
         THEN LET M == onTransactionComplete(call.cbAddress,
                                             MachineWith(MaxPending - Pending + 1))
              IN  /\ M.ok
                  /\ txState' = SetBy(call, txState,
                                      [status |-> "confirmed", hash |-> call.hash,
                                       error |-> NULL])
                  /\ formData' = SetBy(call, formData, INITIAL_FORM_DATA)
                  /\ fetches' = M.fetches
                  /\ last' = Resumed(call, "receipt:" \o receipt,
                                     <<"toast:Transaction confirmed successfully!">>
                                         \o M.emitted)
         ELSE /\ txState' = SetBy(call, txState,
                                  [status |-> "failed", hash |-> call.hash,
                                   error |-> "Transaction failed on chain"])
              /\ last' = Resumed(call, "receipt:" \o receipt,
                                 <<"toast:Transaction failed on chain">>)
              /\ UNCHANGED <<formData, fetches>>
    /\ UNCHANGED <<ethereum, walletState, isMetaMaskAvailable, isSwitching, switches,
                   checkConn, connects,
                   listeners, effectCleanup, formErrors>>

\* The request handleSubmit awaits rejected: its catch block.
SubmitFails(call) ==
    /\ \E error \in (IF call.pc = "wait" THEN WaitErrors ELSE SendErrors) :
         /\ txState' = SetBy(call, txState, SubmitFailed(error))
         /\ last' = Resumed(call, call.pc \o ":rejected",
                            <<"toast:" \o parseTransactionError(error)>>)
    /\ submits' = RemoveFrom(submits, call)
    /\ UNCHANGED <<ethereum, walletState, isMetaMaskAvailable, isSwitching, switches,
                   checkConn, connects,
                   fetches, listeners, effectCleanup, formData, formErrors>>

HandleReset ==
    /\ Mounted
    /\ ResetRendered
    /\ formData' = INITIAL_FORM_DATA
    /\ formErrors' = INITIAL_FORM_ERRORS
    /\ txState' = INITIAL_TRANSACTION_STATE
    /\ last' = Did("handleReset", <<>>)
    /\ UNCHANGED <<ethereum, walletState, isMetaMaskAvailable, isSwitching, switches,
                   checkConn, connects,
                   fetches, listeners, effectCleanup, submits>>

(***************************************************************************)
(* Network switch: NetworkStatus.handleSwitch calls handleSwitchNetwork of *)
(* the Dashboard, which calls switchToSepolia (lib/ethereum).              *)
(***************************************************************************)
SEPOLIA == "0xaa36a7"

UpperCase == "ABCDEFGHIJKLMNOPQRSTUVWXYZ"
LowerCase == "abcdefghijklmnopqrstuvwxyz"

RECURSIVE toLowerCase(_)
toLowerCase(s) ==
    IF s = "" THEN ""
    ELSE LET c == Slice(s, 1, 1)
             i == IndexOf(UpperCase, c, 1)
         IN  (IF i > 0 THEN Slice(LowerCase, i, i) ELSE c) \o toLowerCase(Slice(s, 2, Len(s)))

isSepoliaNetwork(chainId) ==
    IF ~Truthy(chainId) THEN FALSE
    ELSE toLowerCase(chainId) = toLowerCase(SEPOLIA)

\* NETWORK_NAMES, keyed by the values of ChainId.
NETWORK_NAMES ==
    [id \in {"0x1", "0xaa36a7", "0x5", "0x89", "0xa4b1"} |->
        CASE id = "0x1" -> "Ethereum Mainnet"
          [] id = "0xaa36a7" -> "Sepolia Testnet"
          [] id = "0x5" -> "Goerli Testnet"
          [] id = "0x89" -> "Polygon Mainnet"
          [] id = "0xa4b1" -> "Arbitrum One"]

\* getNetworkName that looks the identifier up as it is written.
getNetworkName_exact(chainId) ==
    IF ~Truthy(chainId) THEN "Unknown Network"
    ELSE IF chainId \in DOMAIN NETWORK_NAMES THEN NETWORK_NAMES[chainId]
    ELSE "Unknown Network"

getNetworkName(chainId) ==
    IF ~Truthy(chainId) THEN "Unknown Network"
    ELSE LET normalizedChainId == toLowerCase(chainId)
         IN  IF normalizedChainId \in DOMAIN NETWORK_NAMES
             THEN NETWORK_NAMES[normalizedChainId]
             ELSE "Unknown Network"


\* Errors wallet_switchEthereumChain is rejected with.
SwitchErrors == {ErrObj(UNRECOGNIZED_CHAIN, "Unrecognized chain ID 0xaa36a7.", NULL),
                 ErrObj(USER_REJECTED, "User rejected the request.", NULL)}

\* Errors wallet_addEthereumChain is rejected with.
AddErrors == {ErrObj(USER_REJECTED, "User rejected the request.", NULL),
              ErrObj(UNRECOGNIZED_CHAIN, "Unrecognized chain ID 0xaa36a7.", NULL)}

\* A catch block that tries to add the chain after any error.
AddsChain_always(error) == TRUE


\* The catch block of switchToSepolia: add the chain, or throw the error on.
AddsChain(error) == error.code = UNRECOGNIZED_CHAIN

\* The Switch button: rendered on a wrong network, disabled while loading.
SwitchEnabled ==
    /\ walletState.isConnected
    /\ ~isSepoliaNetwork(walletState.chainId)
    /\ ~(walletState.isLoading \/ isSwitching)

\* handleSwitch up to the first await of switchToSepolia.
HandleSwitch ==
    /\ Mounted
    /\ SwitchEnabled
    /\ IF ethereum = "none"
       THEN /\ last' = Did("handleSwitch",
                           <<"toast:" \o parseWeb3Error(NewError("MetaMask is not installed"))>>)
            /\ UNCHANGED <<isSwitching, switches>>
       ELSE /\ Pending < MaxPending
            /\ isSwitching' = TRUE
            /\ switches' = AddTo(switches, [pc |-> "switch", stale |-> FALSE])
            /\ last' = Did("handleSwitch", <<"wallet_switchEthereumChain">>)
    /\ UNCHANGED <<ethereum, walletState, isMetaMaskAvailable, checkConn, connects,
                   fetches, listeners, effectCleanup, formData, formErrors, txState,
                   submits>>

\* handleSwitch without its finally block: the flag is cleared after the
\* awaited call only when that call returned.
SwitchDone_noFinally(call, op, arg, emitted) ==
    /\ switches' = RemoveFrom(switches, call)
    /\ isSwitching' = IF op \in {"switch:resolved", "add:resolved"}
                      THEN SetBy(call, isSwitching, FALSE)
                      ELSE isSwitching
    /\ last' = [op |-> op, arg |-> arg, emitted |-> emitted, stale |-> call.stale]
    /\ UNCHANGED <<ethereum, walletState, isMetaMaskAvailable, checkConn, connects,
                   fetches, listeners, effectCleanup, formData, formErrors, txState,
                   submits>>

\* A switch that stores Sepolia's chain id itself when the request resolved,
\* without waiting for the chainChanged event.
SwitchDone_setsChainId(call, op, arg, emitted) ==
    /\ switches' = RemoveFrom(switches, call)
    /\ isSwitching' = SetBy(call, isSwitching, FALSE)
    /\ walletState' = IF op \in {"switch:resolved", "add:resolved"} /\ walletState.isConnected
                      THEN [walletState EXCEPT !.chainId = SEPOLIA]
                      ELSE walletState
    /\ last' = [op |-> op, arg |-> arg, emitted |-> emitted, stale |-> call.stale]
    /\ UNCHANGED <<ethereum, isMetaMaskAvailable, checkConn, connects,
                   fetches, listeners, effectCleanup, formData, formErrors, txState,
                   submits>>

\* switchToSepolia returned to handleSwitchNetwork, and that to handleSwitch.
SwitchDone(call, op, arg, emitted) ==
    /\ switches' = RemoveFrom(switches, call)
    /\ isSwitching' = SetBy(call, isSwitching, FALSE)
    /\ last' = [op |-> op, arg |-> arg, emitted |-> emitted, stale |-> call.stale]
    /\ UNCHANGED <<ethereum, walletState, isMetaMaskAvailable, checkConn, connects,
                   fetches, listeners, effectCleanup, formData, formErrors, txState,
                   submits>>

SwitchResolved(call) ==
    /\ call.pc = "switch"
    /\ SwitchDone(call, "switch:resolved", NULL, <<"toast:Switched to Sepolia network">>)

SwitchRejected(call) ==
    /\ call.pc = "switch"
    /\ \E error \in SwitchErrors :
         IF AddsChain(error)
         THEN /\ switches' = AddTo(RemoveFrom(switches, call), [call EXCEPT !.pc = "add"])
              /\ last' = [op |-> "switch:rejected", arg |-> error,
                          emitted |-> <<"wallet_addEthereumChain">>, stale |-> call.stale]
              /\ UNCHANGED <<ethereum, walletState, isMetaMaskAvailable, checkConn,
                             connects, fetches, listeners, effectCleanup, formData,
                             formErrors, txState, submits, isSwitching>>
         ELSE SwitchDone(call, "switch:rejected", error,
                         <<"toast:" \o parseWeb3Error(error)>>)

AddResolved(call) ==
    /\ call.pc = "add"
    /\ SwitchDone(call, "add:resolved", NULL, <<"toast:Switched to Sepolia network">>)

AddRejected(call) ==
    /\ call.pc = "add"
    /\ \E error \in AddErrors :
         SwitchDone(call, "add:rejected", error, <<"toast:" \o parseWeb3Error(error)>>)


(***************************************************************************)
(* The state after the first render.                                       *)
(***************************************************************************)
Init ==
    /\ ethereum \in {"none", "metamask"}
    /\ walletState = INITIAL_WALLET_STATE
    /\ isMetaMaskAvailable = NULL
    /\ checkConn = [pc |-> "mount", address |-> NULL, chainId |-> NULL]
    /\ connects = EmptyBag
    /\ fetches = EmptyBag
    /\ listeners = NoListeners
    /\ effectCleanup = NoCleanup
    /\ formData = INITIAL_FORM_DATA
    /\ formErrors = INITIAL_FORM_ERRORS
    /\ txState = INITIAL_TRANSACTION_STATE
    /\ submits = EmptyBag
    /\ isSwitching = FALSE
    /\ switches = EmptyBag
    /\ last = Did("render", <<>>)

\* The Dashboard alone: nothing is typed into the SendTransaction form.
Next ==
    \/ CheckExistingConnection
    \/ CheckAccounts
    \/ CheckChainId
    \/ CheckBalance
    \/ CheckFails
    \/ HandleConnect
    \/ \E call \in BagToSet(connects) : ConnectAccounts(call)
    \/ \E call \in BagToSet(connects) : ConnectChainId(call)
    \/ \E call \in BagToSet(connects) : ConnectBalance(call)
    \/ \E call \in BagToSet(connects) : ConnectFails(call)
    \/ HandleDisconnect
    \/ AccountsChanged
    \/ ChainChanged
    \/ ProviderDisconnect
    \/ \E call \in BagToSet(fetches) : BalanceFetched(call)
    \/ \E call \in BagToSet(fetches) : BalanceFetchFails(call)

Spec == Init /\ [][Next]_vars

(***************************************************************************)
(* The SendTransaction component under connect and disconnect: the state   *)
(* after the mount check found MetaMask and no connected account, a user   *)
(* who acts through the rendered controls, and a wallet that emits no      *)
(* events.                                                                 *)
(***************************************************************************)
\* The Connect button: rendered while not connected, disabled while loading.
ClickConnect ==
    /\ ~walletState.isConnected
    /\ ~walletState.isLoading
    /\ HandleConnect

\* The Disconnect button: rendered while connected.
ClickDisconnect ==
    /\ walletState.isConnected
    /\ HandleDisconnect

InitTransfer ==
    /\ ethereum = "metamask"
    /\ walletState = INITIAL_WALLET_STATE
    /\ isMetaMaskAvailable = "true"
    /\ checkConn = [pc |-> "done", address |-> NULL, chainId |-> NULL]
    /\ connects = EmptyBag
    /\ fetches = EmptyBag
    /\ listeners = NoListeners
    /\ effectCleanup = NoCleanup
    /\ formData = INITIAL_FORM_DATA
    /\ formErrors = INITIAL_FORM_ERRORS
    /\ txState = INITIAL_TRANSACTION_STATE
    /\ submits = EmptyBag
    /\ isSwitching = FALSE
    /\ switches = EmptyBag
    /\ last = Did("check:accounts", <<>>)

NextTransfer ==
    \/ ClickConnect
    \/ \E call \in BagToSet(connects) : ConnectAccounts(call)
    \/ \E call \in BagToSet(connects) : ConnectChainId(call)
    \/ \E call \in BagToSet(connects) : ConnectBalance(call)
    \/ \E call \in BagToSet(connects) : ConnectFails(call)
    \/ ClickDisconnect
    \/ \E call \in BagToSet(fetches) : BalanceFetched(call)
    \/ \E call \in BagToSet(fetches) : BalanceFetchFails(call)
    \/ HandleInputChange
    \/ HandleSubmit
    \/ \E call \in BagToSet(submits) : SubmitSigner(call)
    \/ \E call \in BagToSet(submits) : SubmitSent(call)
    \/ \E call \in BagToSet(submits) : SubmitReceipt(call)
    \/ \E call \in BagToSet(submits) : SubmitFails(call)
    \/ HandleReset

SpecTransfer == InitTransfer /\ [][NextTransfer]_vars

(***************************************************************************)
(* The network switch under connect, disconnect and chainChanged events,   *)
(* from the same state and with the same user.                             *)
(***************************************************************************)
NextSwitch ==
    \/ ClickConnect
    \/ \E call \in BagToSet(connects) : ConnectAccounts(call)
    \/ \E call \in BagToSet(connects) : ConnectChainId(call)
    \/ \E call \in BagToSet(connects) : ConnectBalance(call)
    \/ \E call \in BagToSet(connects) : ConnectFails(call)
    \/ ClickDisconnect
    \/ ChainChanged
    \/ \E call \in BagToSet(fetches) : BalanceFetched(call)
    \/ \E call \in BagToSet(fetches) : BalanceFetchFails(call)
    \/ HandleSwitch
    \/ \E call \in BagToSet(switches) : SwitchResolved(call)
    \/ \E call \in BagToSet(switches) : SwitchRejected(call)
    \/ \E call \in BagToSet(switches) : AddResolved(call)
    \/ \E call \in BagToSet(switches) : AddRejected(call)

SpecSwitch == InitTransfer /\ [][NextSwitch]_vars


(***************************************************************************)
(* The Dashboard from its first render, with a user who acts through the   *)
(* rendered Connect and Disconnect buttons, and the provider's events.     *)
(***************************************************************************)
NextUser ==
    \/ CheckExistingConnection
    \/ CheckAccounts
    \/ CheckChainId
    \/ CheckBalance
    \/ CheckFails
    \/ ClickConnect
    \/ \E call \in BagToSet(connects) : ConnectAccounts(call)
    \/ \E call \in BagToSet(connects) : ConnectChainId(call)
    \/ \E call \in BagToSet(connects) : ConnectBalance(call)
    \/ \E call \in BagToSet(connects) : ConnectFails(call)
    \/ ClickDisconnect
    \/ AccountsChanged
    \/ ChainChanged
    \/ ProviderDisconnect
    \/ \E call \in BagToSet(fetches) : BalanceFetched(call)
    \/ \E call \in BagToSet(fetches) : BalanceFetchFails(call)

SpecUser == Init /\ [][NextUser]_vars

(***************************************************************************)
(* The same user with a provider that answers every request of a connect.  *)
(***************************************************************************)
ConnectAnswered ==
    \E call \in BagToSet(connects) :
       \/ ConnectAccounts(call)
       \/ ConnectChainId(call)
       \/ ConnectBalance(call)
       \/ ConnectFails(call)

SpecAnswered == Init /\ [][NextUser]_vars /\ WF_vars(ConnectAnswered)

(***************************************************************************)
(* setupWalletListeners as a library: one call of it at a provider that    *)
(* holds the handlers of other callers, then calls of the cleanup function *)
(* it returned.  The wrappers a call creates are its own: "h1" for the     *)
(* call, "h0" for an earlier call, "other" for another caller's handler.   *)
(***************************************************************************)
RegisteredBefore ==
    {[e \in EventNames |->
         (IF prior = "first" THEN <<"h0">> ELSE <<>>)
            \o (IF e \in others THEN <<"other">> ELSE <<>>)
            \o (IF prior = "last" THEN <<"h0">> ELSE <<>>)] :
       others \in SUBSET EventNames, prior \in {"none", "first", "last"}}

SetupListeners ==
    /\ last.op = "registered"
    /\ listeners' = setupWalletListeners(listeners, "h1")
    /\ effectCleanup' = [active |-> TRUE, address |-> "h1"]
    /\ last' = DidWith("setup", last.arg, <<>>)
    /\ UNCHANGED <<ethereum, walletState, isMetaMaskAvailable, checkConn, connects,
                   fetches, formData, formErrors, txState, submits, isSwitching,
                   switches>>

CleanupListeners ==
    /\ effectCleanup.active
    /\ Len(last.emitted) < MaxCleanups
    /\ listeners' = cleanupWalletListeners(listeners, effectCleanup.address)
    /\ last' = DidWith("cleanup", last.arg, Append(last.emitted, "cleanup"))
    /\ UNCHANGED <<ethereum, walletState, isMetaMaskAvailable, checkConn, connects,
                   fetches, effectCleanup, formData, formErrors, txState, submits,
                   isSwitching, switches>>

InitListeners ==
    /\ ethereum \in {"none", "metamask"}
    /\ listeners \in (IF ethereum = "none" THEN {NoListeners} ELSE RegisteredBefore)
    /\ last = DidWith("registered", listeners, <<>>)
    /\ walletState = INITIAL_WALLET_STATE
    /\ isMetaMaskAvailable = NULL
    /\ checkConn = [pc |-> "mount", address |-> NULL, chainId |-> NULL]
    /\ connects = EmptyBag
    /\ fetches = EmptyBag
    /\ effectCleanup = NoCleanup
    /\ formData = INITIAL_FORM_DATA
    /\ formErrors = INITIAL_FORM_ERRORS
    /\ txState = INITIAL_TRANSACTION_STATE
    /\ submits = EmptyBag
    /\ isSwitching = FALSE
    /\ switches = EmptyBag

NextListeners ==
    \/ SetupListeners
    \/ CleanupListeners

SpecListeners == InitListeners /\ [][NextListeners]_vars

(***************************************************************************)
(* The transfer with requests that are answered: every request a           *)
(* handleSubmit call awaits is resolved or rejected in the end.            *)
(***************************************************************************)
SubmitAnswered ==
    \E call \in BagToSet(submits) :
       SubmitSigner(call) \/ SubmitSent(call) \/ SubmitReceipt(call) \/ SubmitFails(call)

SpecTransferAnswered == InitTransfer /\ [][NextTransfer]_vars /\ WF_vars(SubmitAnswered)

(***************************************************************************)
(* lib/ethereum as a library: a pure function applied to an input.  The    *)
(* first state holds the input, a step holds the function's result.        *)
(***************************************************************************)
\* n copies of s, one after the other.
RECURSIVE Repeat(_, _)
Repeat(s, n) == IF n = 0 THEN "" ELSE s \o Repeat(s, n - 1)

\* MetaMaskErrorCode: the codes parseWeb3Error has a case for.
MetaMaskErrorCodes ==
    {USER_REJECTED, UNAUTHORIZED, UNSUPPORTED_METHOD, DISCONNECTED,
     CHAIN_DISCONNECTED, UNRECOGNIZED_CHAIN}

\* The codes parseTransactionError compares errorObj.code with.
TransactionErrorCodes ==
    {USER_REJECTED, "ACTION_REJECTED", "INSUFFICIENT_FUNDS", "NETWORK_ERROR"}

ErrorCodeInputs == MetaMaskErrorCodes \cup TransactionErrorCodes \cup {"UNKNOWN_ERROR", NULL}

ErrorMessageInputs ==
    {NULL, "", "boom",
     "user rejected", "User denied transaction signature",
     "insufficient funds", "Insufficient funds", "intrinsic gas too low",
     "nonce too low", "could not detect network",
     "user rejected: insufficient funds", "insufficient funds for gas",
     "gas price too low for nonce", "nonce has already been used on this network",
     Repeat("0123456789", 10), Repeat("0123456789", 10) \o "x"}

ErrorReasonInputs == {NULL, "execution reverted"}

\* The values a catch block can receive: an object with optional code,
\* message and reason, a string, or null.
ErrorInputs ==
    {ErrObj(code, message, reason) : code \in ErrorCodeInputs,
                                     message \in ErrorMessageInputs,
                                     reason \in ErrorReasonInputs}
       \cup {ErrString("boom"), ErrNull}

\* Strings passed to validateAmount.
AmountStrings ==
    {"", " ", "abc", "0", "-1", "0.0", "1.5", ".5", "+2", "1abc", "1.5.5", "Infinity",
     "1.123456789012345678", "1.1234567890123456789"}

\* Chain identifiers passed to the comparisons: null, the empty string,
\* known and unknown identifiers in several spellings.
ChainIdStrings ==
    {NULL, "", "0x1", "0X1", "0xaa36a7", "0xAA36A7", "0xAa36a7", "0XAA36A7", "0xaA36A7",
     "0x5", "0x89", "0xa4b1", "0xA4B1", "0xA4b1", "0x2", "0xaa36a8", "0xAA36A8", "0xa4b"}

\* Balances in wei as the provider returns them, written in decimal digits:
\* 0, 1 wei, 0.5, 1, 1.2, 1.2345, 1.23456789, 1.99999 and 123.456789 ether.
WeiStrings ==
    {"0", "1", "500000000000000000", "1000000000000000000", "1200000000000000000",
     "1234500000000000000", "1234567890000000000", "1999990000000000000",
     "123456789000000000000"}

\* ethers formatEther: the dot 18 digits from the right, the fraction
\* without its trailing zeros but with one digit at least.
formatEther(wei) ==
    LET padded == IF Len(wei) < 19 THEN Repeat("0", 19 - Len(wei)) \o wei ELSE wei
        whole == Slice(padded, 1, Len(padded) - 18)
        fraction == Slice(padded, Len(padded) - 17, Len(padded))
        end == SkipBack(fraction, 18, {"0"})
    IN  whole \o "." \o (IF end = 0 THEN "0" ELSE Slice(fraction, 1, end))

\* getBalance that keeps five decimal places.
getBalance_fiveDecimals(balance) ==
    LET formattedBalance == formatEther(balance)
        dot == IndexOf(formattedBalance, ".", 1)
        whole == IF dot = 0 THEN formattedBalance ELSE Slice(formattedBalance, 1, dot - 1)
        decimal == SplitDot1(formattedBalance)
    IN  IF ~Truthy(decimal) THEN whole ELSE whole \o "." \o Slice(decimal, 1, 5)

\* getBalance, from the balance the provider answered with.
getBalance(balance) ==
    LET formattedBalance == formatEther(balance)
        dot == IndexOf(formattedBalance, ".", 1)
        whole == IF dot = 0 THEN formattedBalance ELSE Slice(formattedBalance, 1, dot - 1)
        decimal == SplitDot1(formattedBalance)
    IN  IF ~Truthy(decimal) THEN whole ELSE whole \o "." \o Slice(decimal, 1, 4)

ProgramUnchanged ==
    UNCHANGED <<ethereum, walletState, isMetaMaskAvailable, checkConn, connects,
                fetches, listeners, effectCleanup, formData, formErrors, txState,
                submits, isSwitching, switches>>

ParseWeb3Error ==
    /\ last.op = "error"
    /\ last' = DidWith("parseWeb3Error", last.arg, <<parseWeb3Error(last.arg)>>)
    /\ ProgramUnchanged

ParseTransactionError ==
    /\ last.op = "error"
    /\ last' = DidWith("parseTransactionError", last.arg,
                       <<parseTransactionError(last.arg)>>)
    /\ ProgramUnchanged

ValidateAmount ==
    /\ last.op = "amount"
    /\ LET result == validateAmount(last.arg)
       IN  last' = DidWith("validateAmount", last.arg,
                           <<IF result.isValid THEN "valid" ELSE "invalid", result.error>>)
    /\ ProgramUnchanged

GetNetworkName ==
    /\ last.op = "chainId"
    /\ last' = DidWith("getNetworkName", last.arg, <<getNetworkName(last.arg)>>)
    /\ ProgramUnchanged

IsSepoliaNetwork ==
    /\ last.op = "chainId"
    /\ last' = DidWith("isSepoliaNetwork", last.arg,
                       <<IF isSepoliaNetwork(last.arg) THEN "true" ELSE "false">>)
    /\ ProgramUnchanged

GetBalance ==
    /\ last.op = "wei"
    /\ last' = DidWith("getBalance", last.arg, <<getBalance(last.arg)>>)
    /\ ProgramUnchanged

InitLib ==
    /\ ethereum = "metamask"
    /\ walletState = INITIAL_WALLET_STATE
    /\ isMetaMaskAvailable = NULL
    /\ checkConn = [pc |-> "mount", address |-> NULL, chainId |-> NULL]
    /\ connects = EmptyBag
    /\ fetches = EmptyBag
    /\ listeners = NoListeners
    /\ effectCleanup = NoCleanup
    /\ formData = INITIAL_FORM_DATA
    /\ formErrors = INITIAL_FORM_ERRORS
    /\ txState = INITIAL_TRANSACTION_STATE
    /\ submits = EmptyBag
    /\ isSwitching = FALSE
    /\ switches = EmptyBag
    /\ \/ \E error \in ErrorInputs : last = DidWith("error", error, <<>>)
       \/ \E amount \in AmountStrings : last = DidWith("amount", amount, <<>>)
       \/ \E chainId \in ChainIdStrings : last = DidWith("chainId", chainId, <<>>)
       \/ \E wei \in WeiStrings : last = DidWith("wei", wei, <<>>)

NextLib ==
    \/ ParseWeb3Error
    \/ ParseTransactionError
    \/ ValidateAmount
    \/ GetNetworkName
    \/ IsSepoliaNetwork
    \/ GetBalance

SpecLib == InitLib /\ [][NextLib]_vars

(***************************************************************************)
(* Properties of the session.                                              *)
(***************************************************************************)
\* How many times x occurs in seq.
Count(seq, x) == Cardinality({i \in DOMAIN seq : seq[i] = x})

ProviderEvents == {"accountsChanged", "accountsChanged:[]", "chainChanged", "disconnect"}

\* C1: in every reachable state, a session that is not connected has no
\* address, no chain id and no balance, and a connected session has an
\* address and a chain id.
C1_SessionFields ==
    /\ ~walletState.isConnected =>
          /\ walletState.address = NULL
          /\ walletState.chainId = NULL
          /\ walletState.balance = NULL
    /\ walletState.isConnected =>
          /\ walletState.address # NULL
          /\ walletState.chainId # NULL

\* C2: handleConnect called while an earlier call's request is outstanding
\* and the session is still connecting issues no request, changes no state
\* and shows nothing.
C2_SecondConnectIsNoOp ==
    [][(/\ connects # EmptyBag
        /\ walletState.isLoading
        /\ last'.op = "handleConnect")
       => /\ last'.emitted = <<>>
          /\ connects' = connects
          /\ walletState' = walletState]_vars

\* Two calls of handleConnect, the second right after the first: one request.
C2_Witness ==
    /\ last.op = "handleConnect"
    /\ last.emitted = <<>>
    /\ walletState.isLoading
    /\ BagCardinality(connects) = 1

\* C8: for each event the provider holds exactly one handler of the
\* Dashboard while the session is connected, and none while it is not.
C8_OneHandlerWhileConnected ==
    \A e \in EventNames :
        Len(listeners[e]) = IF walletState.isConnected THEN 1 ELSE 0

\* The handlers were registered again after the account changed.
C8_Witness ==
    /\ last.op = "accountsChanged"
    /\ walletState.isConnected
    /\ effectCleanup.address = "0xcd"
    /\ \A e \in EventNames : listeners[e] = <<"0xcd">>

\* C9: once the session is disconnected, neither a provider event nor the
\* rest of an event handler that was awaiting its balance changes the
\* session's state.
C9_NoChangeAfterDisconnect ==
    [][(/\ ~walletState.isConnected
        /\ \/ last'.op \in ProviderEvents
           \/ /\ last'.op \in {"balance:resolved", "balance:rejected"}
              /\ \E call \in BagToSet(fetches) :
                    /\ call.origin \in {"handleAccountsChanged", "handleChainChanged"}
                    /\ fetches' = RemoveFrom(fetches, call))
       => walletState' = walletState]_vars

\* C10: accountsChanged with an empty list while connected leaves the
\* initial wallet state (not connected; no address, chain id, balance or
\* error) and shows one "Wallet disconnected" toast.
C10_EmptyAccountsDisconnects ==
    [][(walletState.isConnected /\ last'.op = "accountsChanged:[]")
       => /\ walletState' = INITIAL_WALLET_STATE
          /\ Count(last'.emitted, "toast:Wallet disconnected") = 1]_vars

C10_Witness ==
    /\ last.op = "accountsChanged:[]"
    /\ last.emitted = <<"toast:Wallet disconnected">>
    /\ walletState = INITIAL_WALLET_STATE
    /\ listeners = NoListeners

(***************************************************************************)
(* Properties of the transfer.                                             *)
(***************************************************************************)
\* The steps after which a displayed transfer is another attempt's, or none.
NewAttempt == {"handleReset", "handleInputChange", "handleSubmit"}

\* C3: at any time at most one handleSubmit call is between its submission
\* and its outcome.
C3_OneActiveTransfer == BagCardinality(submits) <= 1

\* C4: the hash is absent while idle or sending and present while pending
\* or confirmed and in a failure that follows pending; once set it stays as
\* it is until a reset, an edit or a new submission.
C4_HashLifetime ==
    [][/\ txState'.status \in {"idle", "sending"} => txState'.hash = NULL
       /\ txState'.status \in {"pending", "confirmed"} => txState'.hash # NULL
       /\ (txState.status = "pending" /\ txState'.status = "failed")
             => txState'.hash # NULL
       /\ (/\ txState.hash # NULL
           /\ walletState'.isConnected
           /\ last'.op \notin NewAttempt)
             => txState'.hash = txState.hash]_vars

\* C5: onTransactionComplete is called once in the step in which tx.wait()
\* resolves with a receipt of status 1, the only step that sets a transfer
\* confirmed, and in no other step; a step that sets it failed calls nothing.
C5_CompletionOncePerSuccess ==
    [][/\ Count(last'.emitted, "onTransactionComplete") =
             IF last'.op = "receipt:1" THEN 1 ELSE 0
       /\ (txState'.status = "confirmed" /\ txState' # txState)
             => last'.op = "receipt:1"
       /\ (last'.op = "receipt:1" /\ ~last'.stale)
             => txState'.status = "confirmed"
       /\ (txState'.status = "failed" /\ txState' # txState)
             => Count(last'.emitted, "onTransactionComplete") = 0]_vars

C5_Witness ==
    /\ last.op = "receipt:1"
    /\ ~last.stale
    /\ txState.status = "confirmed"
    /\ Count(last.emitted, "onTransactionComplete") = 1

\* The errors a rejected submission leaves in the transfer's state.
RejectionErrors == {parseTransactionError(error) : error \in SendErrors}

\* C6: a pending transfer whose wait reports that the transaction failed on
\* chain becomes failed with an error no rejected submission leaves, and
\* onTransactionComplete is not called.
C6_OnChainFailureIsDistinct ==
    [][(/\ txState.status = "pending"
        /\ ~last'.stale
        /\ last'.op \in {"receipt:0", "wait:rejected"})
       => /\ txState'.status = "failed"
          /\ txState'.error \notin RejectionErrors
          /\ Count(last'.emitted, "onTransactionComplete") = 0]_vars

\* C7: handleSubmit with a recipient or an amount that fails validation
\* makes no request and leaves the transfer's state as it was.
C7_InvalidSubmitDoesNothing ==
    [][(/\ last'.op = "handleSubmit"
        /\ \/ ~isValidAddress(formData.recipient)
           \/ ~validateAmount(formData.amount).isValid)
       => /\ last'.emitted = <<>>
          /\ submits' = submits
          /\ txState' = txState]_vars

C7_Witness ==
    /\ last.op = "handleSubmit"
    /\ last.emitted = <<>>
    /\ formData.recipient = "0x123"
    /\ formErrors.recipient = "Invalid Ethereum address"
    /\ txState = INITIAL_TRANSACTION_STATE
    /\ submits = EmptyBag

(***************************************************************************)
(* Properties of the session's operations.                                 *)
(***************************************************************************)
\* The handleConnect call at stage pc that the step resumed, moving it to
\* stage next.
Advanced(call, pc, next) ==
    /\ call.pc = pc
    /\ \E moved \in BagToSet(connects') :
          /\ moved.pc = next
          /\ connects' = AddTo(RemoveFrom(connects, call), moved)

\* C11: handleConnect requests the accounts first, the chain id only when
\* the accounts request resolved and the balance only when the chain id
\* request resolved; when the balance request resolves the session is
\* connected with the address, chain id and balance of those three answers
\* and is no longer loading.
C11_ConnectSequence ==
    [][/\ Count(last'.emitted, "eth_requestAccounts") > 0
          => /\ last'.op = "handleConnect"
             /\ \E call \in BagToSet(connects') :
                   /\ call.pc = "requestAccounts"
                   /\ connects' = AddTo(connects, call)
       /\ last'.op = "connect:accounts"
          => /\ last'.emitted = <<"eth_chainId">>
             /\ \E call \in BagToSet(connects) :
                   Advanced(call, "requestAccounts", "chainId")
       /\ last'.op = "connect:chainId"
          => /\ last'.emitted = <<"eth_getBalance">>
             /\ \E call \in BagToSet(connects) : Advanced(call, "chainId", "balance")
       /\ last'.op = "connect:balance"
          => \E call \in BagToSet(connects) :
                /\ call.pc = "balance"
                /\ connects' = RemoveFrom(connects, call)
                /\ walletState' = [walletState EXCEPT
                                      !.isConnected = TRUE,
                                      !.address = call.address,
                                      !.chainId = call.chainId,
                                      !.balance = BalanceOf(call.address),
                                      !.isLoading = FALSE]
       /\ last'.op = "connect:rejected"
          => /\ \A i \in DOMAIN last'.emitted : last'.emitted[i] \notin
                   {"eth_requestAccounts", "eth_chainId", "eth_getBalance"}
             /\ BagCardinality(connects') = BagCardinality(connects) - 1]_vars

C11_Witness ==
    /\ last.op = "connect:balance"
    /\ connects = EmptyBag
    /\ walletState = [isConnected |-> TRUE, address |-> "0xAb", chainId |-> "0xaa36a7",
                      balance |-> "1.2345", isLoading |-> FALSE, error |-> NULL]

\* The errors a failed handleConnect stores.
ClassifiedConnectErrors == {parseWeb3Error(error) : error \in ConnectErrors}

NotInstalledMessage ==
    parseWeb3Error(NewError("MetaMask is not installed. Please install MetaMask to continue."))

\* C12: when a request of a handleConnect call made in a session that was
\* not connected is rejected, or the provider is absent, the session is left
\* not connected, without address, chain id or balance, not loading, and
\* with the classified error; without a provider no request is issued.
C12_FailedConnectDisconnected ==
    [][/\ \A call \in BagToSet(connects) :
             (/\ last'.op = "connect:rejected"
              /\ connects' = RemoveFrom(connects, call)
              /\ ~call.wasConnected)
             => /\ ~walletState'.isConnected
                /\ walletState'.address = NULL
                /\ walletState'.chainId = NULL
                /\ walletState'.balance = NULL
                /\ ~walletState'.isLoading
                /\ walletState'.error \in ClassifiedConnectErrors
       /\ (/\ last'.op = "handleConnect"
           /\ ~walletState.isConnected
           /\ ~walletState.isLoading
           /\ ~isMetaMaskInstalled)
          => /\ last'.emitted = <<"toast:" \o NotInstalledMessage>>
             /\ connects' = connects
             /\ walletState' = [INITIAL_WALLET_STATE EXCEPT
                                   !.error = NotInstalledMessage]]_vars

\* The steps in which the provider answers a request of an operation that
\* is in flight.
Answers == {"connect:accounts", "connect:chainId", "connect:balance", "connect:rejected",
            "check:accounts", "check:chainId", "check:balance", "check:rejected",
            "balance:resolved", "balance:rejected"}

\* C13: handleDisconnect leaves the initial wallet state whatever the state
\* before, a second call changes nothing more, and the answer to a request
\* that was in flight at the disconnect leaves address, chain id, balance
\* and error absent.
C13_DisconnectIsFinal ==
    [][/\ last'.op = "handleDisconnect" => walletState' = INITIAL_WALLET_STATE
       /\ (last.op = "handleDisconnect" /\ last'.op = "handleDisconnect")
          => walletState' = walletState
       /\ (last.op = "handleDisconnect" /\ last'.op \in Answers)
          => /\ walletState'.address = NULL
             /\ walletState'.chainId = NULL
             /\ walletState'.balance = NULL
             /\ walletState'.error = NULL]_vars

CheckSteps == {"checkExistingConnection", "check:accounts", "check:chainId",
               "check:balance", "check:rejected"}

\* C14: no step of checkExistingConnection requests account access or
\* changes isLoading; the step in which its balance query resolves sets the
\* session connected with the first account, the chain id and the balance it
\* was answered, and every other step (no provider, no account, a rejected
\* query) leaves the wallet state as it was.
C14_SilentReconnect ==
    [][last'.op \in CheckSteps
       => /\ Count(last'.emitted, "eth_requestAccounts") = 0
          /\ walletState'.isLoading = walletState.isLoading
          /\ IF last'.op = "check:balance"
             THEN walletState' = [walletState EXCEPT
                                    !.isConnected = TRUE,
                                    !.address = checkConn.address,
                                    !.chainId = checkConn.chainId,
                                    !.balance = BalanceOf(checkConn.address)]
             ELSE walletState' = walletState]_vars

C14_Witness ==
    /\ last.op = "check:balance"
    /\ walletState = [isConnected |-> TRUE, address |-> "0xcd", chainId |-> "0x1",
                      balance |-> "0.5", isLoading |-> FALSE, error |-> NULL]

\* C15: accountsChanged with a first account other than the session's
\* address sets the address to it, changes nothing else and starts one
\* balance fetch for it; with the session's own address it changes no state,
\* starts no fetch and shows nothing.
C15_AccountChange ==
    [][(walletState.isConnected /\ last'.op = "accountsChanged")
       => IF last'.arg # walletState.address
          THEN /\ walletState' = [walletState EXCEPT !.address = last'.arg]
               /\ fetches' = AddTo(fetches, [address |-> last'.arg,
                                             origin |-> "handleAccountsChanged"])
               /\ last'.emitted = <<"eth_getBalance">>
          ELSE /\ walletState' = walletState
               /\ fetches' = fetches
               /\ last'.emitted = <<>>]_vars

C15_Witness ==
    /\ last.op = "accountsChanged"
    /\ last.arg = "0xcd"
    /\ walletState.isConnected
    /\ walletState.address = "0xcd"
    /\ walletState.balance = "1.2345"
    /\ fetches = SetToBag({[address |-> "0xcd", origin |-> "handleAccountsChanged"]})

\* C16: chainChanged sets the chain id to the one it carries, changes no
\* other field of the wallet state, and starts one balance fetch for the
\* session's address; a handler that captured no address would start none.
C16_ChainChange ==
    [][(walletState.isConnected /\ last'.op = "chainChanged")
       => /\ walletState' = [walletState EXCEPT !.chainId = last'.arg]
          /\ fetches' = AddTo(fetches, [address |-> walletState.address,
                                        origin |-> "handleChainChanged"])
          /\ last'.emitted = <<"eth_getBalance">>
          /\ LET M == handleChainChanged(NULL, last'.arg, Machine)
             IN  /\ M.ws = [walletState EXCEPT !.chainId = last'.arg]
                 /\ M.fetches = fetches]_vars

C16_Witness ==
    /\ last.op = "chainChanged"
    /\ last.arg = "0xaa36a7"
    /\ walletState.isConnected
    /\ walletState.chainId = "0xaa36a7"
    /\ walletState.address = "0xab"
    /\ fetches = SetToBag({[address |-> "0xab", origin |-> "handleChainChanged"]})

\* C17: a rejected balance request of refreshBalance leaves the whole
\* wallet state as it was, the stored balance included; a resolved one
\* changes the balance only, to the balance of the address it was made for.
C17_RefreshBalanceFrame ==
    [][/\ last'.op = "balance:rejected" => walletState' = walletState
       /\ last'.op = "balance:resolved"
          => \E call \in BagToSet(fetches) :
                /\ fetches' = RemoveFrom(fetches, call)
                /\ walletState' = [walletState EXCEPT
                                      !.balance = BalanceOf(call.address)]]_vars

C17_Witness ==
    /\ last.op = "balance:rejected"
    /\ walletState = [isConnected |-> TRUE, address |-> "0xcd", chainId |-> "0x1",
                      balance |-> "1.2345", isLoading |-> FALSE, error |-> NULL]

(***************************************************************************)
(* Properties of the network switch.                                       *)
(***************************************************************************)
\* C18: a switch issues one wallet_switchEthereumChain request, when it is
\* called; it issues one wallet_addEthereumChain request when that request
\* was rejected with code 4902 and only then, and no switch request after
\* it; a switch rejected with another code, or a rejected add, ends the
\* call with that error handed to the caller.
C18_SwitchThenAddOnce ==
    [][/\ Count(last'.emitted, "wallet_switchEthereumChain") > 0
          => /\ last'.op = "handleSwitch"
             /\ last'.emitted = <<"wallet_switchEthereumChain">>
             /\ switches' = AddTo(switches, [pc |-> "switch", stale |-> FALSE])
       /\ Count(last'.emitted, "wallet_addEthereumChain") > 0
          => /\ last'.op = "switch:rejected"
             /\ last'.arg.code = UNRECOGNIZED_CHAIN
       /\ last'.op = "switch:rejected"
          => IF last'.arg.code = UNRECOGNIZED_CHAIN
             THEN /\ last'.emitted = <<"wallet_addEthereumChain">>
                  /\ \E call \in BagToSet(switches) :
                        /\ call.pc = "switch"
                        /\ switches' = AddTo(RemoveFrom(switches, call),
                                             [call EXCEPT !.pc = "add"])
             ELSE /\ last'.emitted = <<"toast:" \o parseWeb3Error(last'.arg)>>
                  /\ BagCardinality(switches') = BagCardinality(switches) - 1
       /\ last'.op = "add:rejected"
          => /\ last'.emitted = <<"toast:" \o parseWeb3Error(last'.arg)>>
             /\ BagCardinality(switches') = BagCardinality(switches) - 1
       /\ last'.op \in {"switch:resolved", "add:resolved"}
          => /\ last'.emitted = <<"toast:Switched to Sepolia network">>
             /\ BagCardinality(switches') = BagCardinality(switches) - 1]_vars

\* The switch was rejected with 4902 and the add request was rejected too.
C18_Witness ==
    /\ last.op = "add:rejected"
    /\ last.arg = ErrObj(USER_REJECTED, "User rejected the request.", NULL)
    /\ last.emitted = <<"toast:Connection rejected. Please approve the connection in MetaMask.">>
    /\ switches = EmptyBag
    /\ ~isSwitching

(***************************************************************************)
(* Properties of the transfer's status.                                    *)
(***************************************************************************)
\* The changes of status the lifecycle of a transfer lists.
TransferEdges ==
    {<<"idle", "sending">>, <<"sending", "pending">>, <<"sending", "failed">>,
     <<"pending", "confirmed">>, <<"pending", "failed">>,
     <<"confirmed", "idle">>, <<"failed", "idle">>,
     <<"confirmed", "sending">>, <<"failed", "sending">>}

\* C19: the status of the transfer changes along the listed edges only: to
\* idle by a reset or an edit after confirmed or failed, to sending by a
\* submission; never from sending or pending to idle, never from pending to
\* sending.
C19_TransferEdges ==
    [][txState'.status # txState.status
          => /\ <<txState.status, txState'.status>> \in TransferEdges
             /\ txState'.status = "idle"
                   => last'.op \in {"handleReset", "handleInputChange"}
             /\ txState'.status = "sending" => last'.op = "handleSubmit"]_vars

C21_ErrorIffFailed == (txState.error # NULL) <=> (txState.status = "failed")

\* The send was rejected by the user: failed, with the classified message.
C21_Witness ==
    /\ txState.status = "failed"
    /\ txState.error = "Transaction cancelled by user."
    /\ last.op = "sendTransaction:rejected"

(***************************************************************************)
(* Properties of the error classifiers.                                    *)
(***************************************************************************)
\* The error that carries the code of e and nothing else.
CodeOnly(e) == ErrObj(e.code, NULL, NULL)

\* C22: for an error that carries a code the classifier compares with, the
\* result is the one of that code alone, whatever its message and reason
\* are.
C22_CodeBeforeMessage ==
    /\ (/\ last.op = "parseWeb3Error"
        /\ last.arg.kind = "object"
        /\ last.arg.code \in MetaMaskErrorCodes)
          => last.emitted = <<parseWeb3Error(CodeOnly(last.arg))>>
    /\ (/\ last.op = "parseTransactionError"
        /\ last.arg.kind = "object"
        /\ last.arg.code \in TransactionErrorCodes)
          => last.emitted = <<parseTransactionError(CodeOnly(last.arg))>>

\* The kinds of phrase in a message, highest priority first, each with the
\* phrases of its kind and the result of its category.
PhraseKinds ==
    <<[phrases |-> {"user rejected", "User denied"},
       result |-> "Transaction cancelled by user."],
      [phrases |-> {"insufficient funds", "Insufficient funds"},
       result |-> "Insufficient ETH balance to complete this transaction."],
      [phrases |-> {"gas"},
       result |-> "Failed to estimate gas. The transaction may fail."],
      [phrases |-> {"nonce"},
       result |-> "Transaction nonce error. Please try again."],
      [phrases |-> {"network"},
       result |-> "Network error. Please check your connection."]>>

HasKind(message, k) == \E p \in PhraseKinds[k].phrases : Includes(message, p)

\* C23: for an error without a code parseTransactionError compares with,
\* whose message contains phrases of one or several kinds, the result is the
\* category of the first kind present in the order rejection, insufficient
\* funds, gas, nonce, network.
C23_PhrasePriority ==
    (/\ last.op = "parseTransactionError"
     /\ last.arg.kind = "object"
     /\ last.arg.code \notin TransactionErrorCodes
     /\ last.arg.message # NULL)
       => \A k \in DOMAIN PhraseKinds :
             (/\ HasKind(last.arg.message, k)
              /\ \A j \in 1..(k - 1) : ~HasKind(last.arg.message, j))
                => last.emitted = <<PhraseKinds[k].result>>

\* A message with a gas phrase and a nonce phrase is classified as gas, one
\* with a nonce phrase and a network phrase as nonce.
C23_Witness ==
    /\ last.op = "parseTransactionError"
    /\ last.arg = ErrObj(NULL, "gas price too low for nonce", NULL)
    /\ last.emitted = <<"Failed to estimate gas. The transaction may fail.">>

\* An error the classifier op has neither a code nor a phrase for.
Unmatched(op, e) ==
    /\ e.kind = "object"
    /\ IF op = "parseWeb3Error"
       THEN /\ e.code \notin MetaMaskErrorCodes
            /\ ~MsgIncludes(e, "user rejected")
       ELSE /\ e.code \notin TransactionErrorCodes
            /\ e.message # NULL => \A k \in DOMAIN PhraseKinds : ~HasKind(e.message, k)

\* The message of the generic category of each classifier.
GenericResult(op) ==
    IF op = "parseWeb3Error" THEN "An unexpected error occurred. Please try again."
    ELSE "Transaction failed. Please try again."

\* C24: for an error with no code and no phrase the classifier knows, the
\* result is the reason if there is one, else the message, whole up to 100
\* characters and cut to 100 characters and "..." beyond, else the generic
\* message; and every error value has a result.
C24_Fallback ==
    last.op \in {"parseWeb3Error", "parseTransactionError"}
       => /\ last.emitted # <<THROWS>>
          /\ Unmatched(last.op, last.arg)
                => last.emitted =
                      <<IF Truthy(last.arg.reason) THEN last.arg.reason
                        ELSE IF Truthy(last.arg.message)
                        THEN IF Len(last.arg.message) <= 100 THEN last.arg.message
                             ELSE SubSeq(last.arg.message, 1, 100) \o "..."
                        ELSE GenericResult(last.op)>>

\* The result of the classifier op for error e.
Classified(op, e) ==
    IF op = "parseWeb3Error" THEN parseWeb3Error(e) ELSE parseTransactionError(e)

\* C25: in each classifier an error with one of the six provider codes has
\* the result of that code, whatever else it carries, and the results of
\* two different codes differ.
C25_OneResultPerCode ==
    (/\ last.op \in {"parseWeb3Error", "parseTransactionError"}
     /\ last.arg.kind = "object"
     /\ last.arg.code \in MetaMaskErrorCodes)
       => /\ last.emitted = <<Classified(last.op, CodeOnly(last.arg))>>
          /\ \A code \in MetaMaskErrorCodes \ {last.arg.code} :
                last.emitted # <<Classified(last.op, ErrObj(code, NULL, NULL))>>

(***************************************************************************)
(* Properties of the input validation.                                     *)
(***************************************************************************)
\* s is a decimal number: an optional sign, then digits with at most one
\* dot and at least one digit, white space around it aside.
IsDecimal(s) ==
    LET t == Trim(s)
        body == IF CharAt(t, 1) \in {"+", "-"} THEN Slice(t, 2, Len(t)) ELSE t
        dot == IndexOf(body, ".", 1)
        int == IF dot = 0 THEN body ELSE Slice(body, 1, dot - 1)
        frac == IF dot = 0 THEN "" ELSE Slice(body, dot + 1, Len(body))
    IN  AllIn(int, Digits) /\ AllIn(frac, Digits) /\ int \o frac # ""

\* The four amounts the validator has a reason of its own for.
RejectedAmounts == {"0", "-1", "", "abc"}

\* C26: validateAmount finds "0", "-1", "" and "abc" invalid, each for a
\* reason none of the other three has; it finds every string that is not a
\* decimal number invalid; it finds an amount with 18 fractional digits
\* valid and one with 19 invalid.
C26_ValidateAmount ==
    last.op = "validateAmount"
       => /\ last.arg \in RejectedAmounts
                => /\ last.emitted[1] = "invalid"
                   /\ \A other \in RejectedAmounts \ {last.arg} :
                         validateAmount(other).error # last.emitted[2]
          /\ ~IsDecimal(last.arg) => last.emitted[1] = "invalid"
          /\ last.arg = "1.123456789012345678" => last.emitted[1] = "valid"
          /\ last.arg = "1.1234567890123456789" => last.emitted[1] = "invalid"

\* C27: a submission with a bad recipient or amount ends before any provider
\* request; once the signer request of a submission is answered, no error
\* about the input is raised: the amount is converted and the send request
\* is issued.
C27_ValidationBeforeRequests ==
    [][/\ (/\ last'.op = "handleSubmit"
           /\ \/ ~isValidAddress(formData.recipient)
              \/ ~validateAmount(formData.amount).isValid)
             => last'.emitted = <<>> /\ submits' = submits
       /\ last'.op = "submit:signer"
             => last'.emitted = <<"eth_sendTransaction">>]_vars

(***************************************************************************)
(* Properties of the chain comparisons.                                    *)
(***************************************************************************)
\* c and d are one character, or the capital and the small form of a letter.
SameLetter(c, d) ==
    c = d \/ \E i \in 1..Len(UpperCase) :
                {c, d} = {Slice(UpperCase, i, i), Slice(LowerCase, i, i)}

\* Two identifiers that differ in letter case at most.
SameButCase(a, b) ==
    /\ a # NULL /\ b # NULL
    /\ Len(a) = Len(b)
    /\ \A i \in 1..Len(a) : SameLetter(CharAt(a, i), CharAt(b, i))

\* The spellings of the identifier of Sepolia, and of the known identifiers.
SepoliaSpellings == {id \in ChainIdStrings : SameButCase(id, "0xaa36a7")}
KnownSpellings ==
    {id \in ChainIdStrings : \E known \in DOMAIN NETWORK_NAMES : SameButCase(id, known)}

\* C28: isSepoliaNetwork and getNetworkName give an identifier the answer
\* they give every identifier that differs from it in letter case only; an
\* absent or unknown identifier gives false and "Unknown Network".
C28_CaseInsensitiveChains ==
    /\ last.op = "getNetworkName"
          => /\ \A other \in ChainIdStrings :
                   SameButCase(last.arg, other)
                      => last.emitted = <<getNetworkName(other)>>
             /\ last.arg \in KnownSpellings <=> last.emitted # <<"Unknown Network">>
    /\ last.op = "isSepoliaNetwork"
          => /\ \A other \in ChainIdStrings :
                   SameButCase(last.arg, other)
                      => last.emitted = <<IF isSepoliaNetwork(other) THEN "true" ELSE "false">>
             /\ last.arg \in SepoliaSpellings <=> last.emitted = <<"true">>

\* Sepolia written in capitals has the name and the answer of Sepolia.
C28_Witness ==
    /\ last.op = "getNetworkName"
    /\ last.arg = "0XAA36A7"
    /\ last.emitted = <<"Sepolia Testnet">>
    /\ isSepoliaNetwork(last.arg)

(***************************************************************************)
(* Properties of the balance's rendering.                                  *)
(***************************************************************************)
\* C29: getBalance returns the decimal rendering of the balance as it is when
\* its fraction has 4 digits or fewer, and cut after the 4th digit of the
\* fraction, without rounding, when it has more: 1.23456789 gives "1.2345",
\* 1.99999 gives "1.9999", 1.2 gives "1.2".
C29_BalanceTruncated ==
    last.op = "getBalance"
       => LET rendering == formatEther(last.arg)
              dot == IndexOf(rendering, ".", 1)
          IN  /\ last.emitted =
                    <<IF dot = 0 \/ Len(rendering) - dot <= 4 THEN rendering
                      ELSE SubSeq(rendering, 1, dot + 4)>>
              /\ last.arg = "1234567890000000000" => last.emitted = <<"1.2345">>
              /\ last.arg = "1999990000000000000" => last.emitted = <<"1.9999">>
              /\ last.arg = "1200000000000000000" => last.emitted = <<"1.2">>
              /\ last.arg = "1000000000000000000" => last.emitted = <<"1.0">>

\* A balance of 1.99999 ether is rendered "1.9999".
C29_Witness ==
    /\ last.op = "getBalance"
    /\ last.arg = "1999990000000000000"
    /\ last.emitted = <<"1.9999">>

(***************************************************************************)
(* Properties of the stored address.                                       *)
(***************************************************************************)
\* C30: an address the session holds is in lower case, and an
\* accountsChanged event that names the session's account, in whatever
\* letter case, changes nothing.
C30_AddressLowercase ==
    [][/\ walletState'.address # NULL
             => walletState'.address = toLowerCase(walletState'.address)
       /\ (/\ last'.op = "accountsChanged"
           /\ last'.arg # NULL
           /\ walletState.address # NULL
           /\ toLowerCase(last'.arg) = toLowerCase(walletState.address))
             => walletState' = walletState /\ last'.emitted = <<>>]_vars

(***************************************************************************)
(* Properties of termination.                                              *)
(***************************************************************************)
\* C31: when every request of a connect is answered, with whatever value, a
\* session that is connecting ends connecting, and the next handleConnect
\* is accepted.
C31_ConnectingEnds == walletState.isLoading ~> ~walletState.isLoading

(***************************************************************************)
(* Properties of the connect attempts.                                     *)
(***************************************************************************)
\* C32: an accepted handleConnect leaves the session without an error when
\* it issues its request, the session has no error while a connect attempt
\* is in flight, and a connect that succeeds leaves it without one.
C32_ErrorClearedByConnect ==
    [][/\ (last'.op = "handleConnect" /\ connects' # connects)
             => walletState'.error = NULL
       /\ connects' # EmptyBag => walletState'.error = NULL
       /\ last'.op = "connect:balance" => walletState'.error = NULL]_vars

(***************************************************************************)
(* Properties of the listener registrations.                               *)
(***************************************************************************)
\* C33: setupWalletListeners adds one handler of its own to each of the
\* three events and nothing without a provider; its cleanup function, called
\* once or several times, leaves the provider with the registrations it had
\* before the call, those of other callers untouched.
C33_CleanupExact ==
    /\ last.op = "setup"
          => listeners = IF ethereum = "none" THEN NoListeners
                         ELSE [e \in EventNames |-> Append(last.arg[e], "h1")]
    /\ last.op = "cleanup" => listeners = last.arg

\* The cleanup function was called twice at a provider that holds another
\* caller's handler and an earlier call's.
C33_Witness ==
    /\ last.op = "cleanup"
    /\ Len(last.emitted) = 2
    /\ ethereum = "metamask"
    /\ listeners = [e \in EventNames |-> <<"h0", "other">>]

C35_BalanceOfCurrentAddress ==
    (/\ walletState.isConnected
     /\ fetches = EmptyBag
     /\ connects = EmptyBag
     /\ checkConn.pc = "done"
     /\ walletState.balance # NULL)
        => walletState.balance = BalanceOf(walletState.address)

(***************************************************************************)
(* Properties of overlapping connects.                                     *)
(***************************************************************************)
\* C36: the session is never connected and connecting at once.
C36_NotConnectedAndConnecting ==
    ~(walletState.isConnected /\ walletState.isLoading)

\* C37: at most one eth_requestAccounts request of connectWallet is
\* outstanding at a time.
C37_OneRequestAccounts ==
    CopiesIn("requestAccounts", BagOfAll(LAMBDA call : call.pc, connects)) <= 1

(***************************************************************************)
(* Properties of the transfer's termination.                               *)
(***************************************************************************)
\* C38: when every request of a transfer is answered, a transfer that is
\* sending or pending is confirmed or failed in the end.
C38_TransferEnds ==
    (txState.status \in {"sending", "pending"})
        ~> (txState.status \in {"confirmed", "failed"})

(***************************************************************************)
(* Properties of the network switch and the session.                       *)
(***************************************************************************)
SwitchSteps ==
    {"handleSwitch", "switch:resolved", "switch:rejected", "add:resolved", "add:rejected"}

\* C39: no step of a switch request, from the click to its last answer,
\* changes a field of the wallet state; chainId gets a new value only when
\* a connect or the mount check completes or a chainChanged event is
\* handled, and becomes null only by a disconnect or an accountsChanged
\* event without accounts.
C39_SwitchFrame ==
    [][/\ last'.op \in SwitchSteps => walletState' = walletState
       /\ walletState'.chainId # walletState.chainId
             => IF walletState'.chainId = NULL
                THEN last'.op \in {"handleDisconnect", "disconnect", "accountsChanged:[]"}
                ELSE last'.op \in {"connect:balance", "check:balance", "chainChanged"}]_vars

\* A switch request resolved in a connected session that is still on
\* another chain: the chainChanged event has not arrived.
C39_Witness ==
    /\ last.op \in {"switch:resolved", "add:resolved"}
    /\ ~last.stale
    /\ walletState.isConnected
    /\ walletState.chainId = "0x1"
    /\ ~isSwitching

\* The switch requests in flight that the mounted NetworkStatus started.
OwnSwitches ==
    {call \in BagToSet(switches) : ~call.stale}

\* C40: after every step isSwitching is true exactly when a request of a
\* handleSwitch call of the mounted control, the switch or the add that
\* follows it, is outstanding; there is at most one such call, and a step
\* that issues a switch request starts with the flag false and sets it.
C40_SwitchingIffOutstanding ==
    [][/\ isSwitching' <=> OwnSwitches' # {}
       /\ \A call \in OwnSwitches' : CopiesIn(call, switches') = 1
       /\ Cardinality(OwnSwitches') <= 1
       /\ BagCardinality(switches') > BagCardinality(switches)
             => ~isSwitching /\ isSwitching']_vars

\* The add request that followed a switch was rejected, and the flag that
\* was set during both requests is cleared.
C40_Witness ==
    /\ last.op = "add:rejected"
    /\ ~last.stale
    /\ walletState.isConnected
    /\ ~isSwitching
    /\ switches = EmptyBag

====
